---- MODULE Spec2Model ----
(***************************************************************************)
(* A model of the event ingestion / webhook dispatch path, the referral    *)
(* commission ledger and the membership mirror of telegram_mml.            *)
(*                                                                         *)
(* The components share no state in the code, so each has its own          *)
(* specification over the module's variables:                              *)
(*   SpecDelivery  ContractEventListener (services/eventListener.js)       *)
(*   SpecUsers     User creation (ensureUser, the bot's /start handlers)   *)
(*   SpecLedger    Referral model, referralController, DatabaseService     *)
(*   SpecRate      commissionRate of a saved Referral, per plan level      *)
(*   SpecMirror    membership refresh paths against Web3Service            *)
(*   SpecListenerFair  the standalone listener with fair scheduling        *)
(*   SpecWebhook   the webhook router (routes/webhook.js)                  *)
(*   SpecStartup   process start: scripts/eventListener.js, config/web3.js *)
(*   SpecSurface   the request handlers of referralController              *)
(*   SpecRace      two requests for one commission event, interleaved      *)
(*   SpecEvents    parsed events recorded through DatabaseService          *)
(*   SpecSync      createReferral and syncUserReferrals on a filled ledger *)
(*   SpecParse     parseEvents over the logs of a receipt                  *)
(*   SpecCleanup   cleanupFailedReferrals on the referral ledger           *)
(*   SpecDb        connectDB and its reconnection timers                   *)
(*   SpecShutdown  gracefulShutdown of the standalone listener             *)
(*   SpecWallet    wallet connection and membership update requests        *)
(*   SpecRateLimit TelegramService.withRateLimit                           *)
(* Library calls (ethers, mongoose, node-fetch) are modelled by the        *)
(* contract the calling code relies on.                                    *)
(***************************************************************************)
EXTENDS Integers, Sequences, FiniteSets, TLC

(***************************************************************************)
(* Bounds of the model.                                                    *)
(***************************************************************************)
MaxLogs == 2
MaxHandlerSets == 2
MaxFetchRuns == 1
MaxTimers == 1
MaxUsers == 3
MaxRows == 2
MaxList == 2
\* Wallet addresses holding a membership.
MaxWallets == 1
\* Notifications the bot sends.
MaxNotified == 3
\* Requests handled at the same time for one commission event.
MaxWorkers == 2
\* Logs of one transaction.
MaxLogIndex == 2
\* Logs of one receipt.
MaxBatch == 3
\* Cap on the connection attempt counter, retry timers and registered
\* 'disconnected' handlers of the database module.
MaxAttempts == 7
MaxDbTimers == 2
MaxDbHandlers == 2
\* Cap on the number of times the body of gracefulShutdown is entered.
MaxShutdownRuns == 3
\* Users issuing wallet and membership requests, and membership rows kept.
MaxWalletUsers == 2
MaxMemberships == 2
\* Largest `retries` argument given to withRateLimit.
MaxRetries == 3

\* Referral.commissionRate: default 60.
DefaultCommissionRate == 60
MAX_RETRY_ATTEMPTS == 5

\* Values standing for an unset (undefined) path of a document.
None == "none"
NoUser == 0
NoRate == -1

VARIABLES
  \* ---- ContractEventListener ----
  emitted,      \* chain logs emitted so far: log number -> event name
  handlerSets,  \* number of contract instances on which setupEventListeners ran
  removed,      \* contract instances whose listeners stop() removed
  due,          \* <<i, l>>: instance i was subscribed when log l was emitted
  timers,       \* pending setTimeout(reconnect) timers
  calls,        \* l -> triggerWebhook calls made for log l
  posts,        \* l -> fetch() POSTs issued for log l
  inflight,     \* l -> POSTs for log l awaiting their response
  delivered,    \* l -> POSTs for log l answered 2xx
  failed,       \* l -> calls for log l that ended in storeFailedWebhook
  dropped,      \* l -> handler runs for log l that made no call at all
  run,          \* fetchMissedEvents run r -> [st, todo, cur]
  \* ---- users and the referral ledger ----
  userExists,   \* u -> a User document exists for telegram user u
  referredBy,   \* u -> User.referredBy (NoUser when unset)
  sessionCode,  \* u -> req.session.referralCode of u's session (0 when unset)
  totalReferrals, \* u -> totalReferrals of u's User document
  referrals,    \* the Referral collection, in insertion order
  lastError,    \* outcome of the last ledger operation
  \* ---- membership mirror ----
  chain,        \* wallet -> the contract's member struct and NFT balance
  membership,   \* wallet -> the Membership document of that wallet
  response,     \* what the last membership handler answered
  \* ---- webhook receiver (routes/webhook.js) ----
  env,          \* process.env of the web process: variable -> value or None
  notified,     \* notifications sent through telegramBotService
  webhookAnswer, \* the last request to a webhook route and its status
  \* ---- process startup (scripts/eventListener.js, config/web3.js) ----
  listenerProc, \* the standalone listener process
  web3Config,   \* the Web3Config singleton of the web process
  \* ---- requests in progress on the ledger ----
  workers,      \* per request: where it is between its awaits
  \* ---- history ----
  ingested,     \* the parsed events handed to the ledger so far
  \* ---- ContractService.parseEvents ----
  receipt,      \* the logs of the receipt at hand
  parsed,       \* what parseEvents returned for it, and the filter it was given
  \* ---- config/database.js ----
  isConnected,        \* the module's isConnected flag
  connectionAttempts, \* the module's attempt counter
  connecting,         \* connectDB calls awaiting mongoose.connect
  retryTimers,        \* pending timers set by the catch block
  disconnectTimers,   \* pending timers set by 'disconnected' handlers
  disconnectHandlers, \* 'disconnected' handlers registered so far
  \* ---- StandaloneEventListener shutdown ----
  isShuttingDown,     \* this.isShuttingDown
  shutdownPc,         \* "running", "closing" (awaiting connection.close) or "exited"
  shutdownRuns,       \* times the body of gracefulShutdown was entered
  triggered,          \* the shutdown triggers that have fired
  \* ---- wallet and membership requests ----
  walletOf,           \* User.walletAddress of each user, None when unset
  memberships,        \* the Membership collection, in insertion order
  requests,           \* each user's request in flight and its position
  walletStatus,       \* HTTP status of the last wallet response, 0 before any
  \* ---- TelegramService.withRateLimit ----
  rateLimitCall       \* the last call of withRateLimit and how it ended

deliveryVars ==
  <<emitted, handlerSets, removed, due, timers, calls, posts, inflight,
    delivered, failed, dropped, run>>

userVars == <<userExists, referredBy, sessionCode>>

ledgerVars == <<totalReferrals, referrals, lastError>>

mirrorVars == <<chain, membership, response>>

webhookVars == <<env, notified, webhookAnswer>>

startupVars == <<listenerProc, web3Config>>

raceVars == <<workers>>
eventVars == <<ingested>>
parseVars == <<receipt, parsed>>

\* The variables added for the components below the ledger.
dbVars ==
  <<isConnected, connectionAttempts, connecting, retryTimers, disconnectTimers,
    disconnectHandlers>>
shutdownVars == <<isShuttingDown, shutdownPc, shutdownRuns, triggered>>
walletVars == <<walletOf, memberships, requests, walletStatus>>
rateLimitVars == <<rateLimitCall>>
auxVars == <<parseVars, dbVars, shutdownVars, walletVars, rateLimitVars>>

vars ==
  <<deliveryVars, userVars, ledgerVars, mirrorVars, webhookVars, startupVars, raceVars,
    eventVars, auxVars>>

\* What a step of one component leaves alone.
DeliveryOnly ==
  UNCHANGED <<userVars, ledgerVars, mirrorVars, webhookVars, startupVars, raceVars, eventVars, auxVars>>
UsersOnly ==
  UNCHANGED <<deliveryVars, ledgerVars, mirrorVars, webhookVars, startupVars, raceVars, eventVars, auxVars>>
LedgerOnly ==
  UNCHANGED <<deliveryVars, userVars, mirrorVars, webhookVars, startupVars, raceVars, eventVars, auxVars>>
MirrorOnly ==
  UNCHANGED <<deliveryVars, userVars, ledgerVars, webhookVars, startupVars, raceVars, eventVars, auxVars>>
WebhookOnly ==
  UNCHANGED <<deliveryVars, userVars, ledgerVars, mirrorVars, startupVars, raceVars, eventVars, auxVars>>
StartupOnly ==
  UNCHANGED <<deliveryVars, userVars, ledgerVars, mirrorVars, env, notified, webhookAnswer,
              raceVars, eventVars, auxVars>>
RaceOnly ==
  UNCHANGED <<deliveryVars, userVars, mirrorVars, webhookVars, startupVars, lastError,
              eventVars, auxVars>>
EventOnly ==
  UNCHANGED <<deliveryVars, userVars, mirrorVars, webhookVars, startupVars, raceVars,
              auxVars>>

\* The components above, left alone together.
baseVars ==
  <<deliveryVars, userVars, ledgerVars, mirrorVars, webhookVars, startupVars, raceVars,
    eventVars>>
ParseOnly == UNCHANGED <<baseVars, dbVars, shutdownVars, walletVars, rateLimitVars>>
DbOnly == UNCHANGED <<baseVars, parseVars, shutdownVars, walletVars, rateLimitVars>>
ShutdownOnly == UNCHANGED <<baseVars, parseVars, dbVars, walletVars, rateLimitVars>>
WalletOnly == UNCHANGED <<baseVars, parseVars, dbVars, shutdownVars, rateLimitVars>>
RateLimitOnly == UNCHANGED <<baseVars, parseVars, dbVars, shutdownVars, walletVars>>

(***************************************************************************)
(* ContractEventListener: src/unnamed/part_012 lines 1-269                 *)
(* The code keeps no record of a triggerWebhook call, so the model counts  *)
(* the calls per log.                                                      *)
(***************************************************************************)
Logs == 1..MaxLogs
HandlerIds == 1..MaxHandlerSets
RunIds == 1..MaxFetchRuns

\* The six events setupEventListeners subscribes to.
EventNames == {"MemberRegistered", "ReferralPaid", "PlanUpgraded",
               "MemberExited", "NewCycleStarted", "EmergencyWithdraw"}

\* The webhook path each live handler posts to.
Endpoint(name) ==
  CASE name = "MemberRegistered"  -> "/member-registered"
    [] name = "ReferralPaid"      -> "/commission-paid"
    [] name = "PlanUpgraded"      -> "/plan-upgraded"
    [] name = "MemberExited"      -> "/member-exited"
    [] name = "NewCycleStarted"   -> "/cycle-started"
    [] name = "EmergencyWithdraw" -> "/system-alert"

\* processEvent's switch: only these two names have a case.
ProcessEventHandles(name) == name \in {"MemberRegistered", "ReferralPaid"}

InitDelivery ==
  /\ emitted = [l \in {} |-> None]
  /\ handlerSets = 1               \* the constructor calls setupEventListeners
  /\ removed = {}
  /\ due = {}
  /\ timers = 0
  /\ calls = [l \in Logs |-> 0]
  /\ posts = [l \in Logs |-> 0]
  /\ inflight = [l \in Logs |-> 0]
  /\ delivered = [l \in Logs |-> 0]
  /\ failed = [l \in Logs |-> 0]
  /\ dropped = [l \in Logs |-> 0]
  /\ run = [r \in RunIds |-> [st |-> "idle", todo |-> <<>>, cur |-> 0]]

Emitted == DOMAIN emitted

\* The contract emits its next log; every instance that still has listeners
\* is subscribed to it.
Emit(name) ==
  /\ Cardinality(Emitted) < MaxLogs
  /\ LET l == Cardinality(Emitted) + 1 IN
       /\ emitted' = [x \in Emitted \cup {l} |-> IF x = l THEN name ELSE emitted[x]]
       /\ due' = due \cup {<<i, l>> : i \in (1..handlerSets) \ removed}
  /\ UNCHANGED <<handlerSets, removed, timers, calls, posts, inflight,
                 delivered, failed, dropped, run>>

\* triggerWebhook up to the POST: one fetch() is issued; nothing is looked up
\* or recorded before it.
TriggerWebhook(l) ==
  /\ calls' = [calls EXCEPT ![l] = @ + 1]
  /\ posts' = [posts EXCEPT ![l] = @ + 1]
  /\ inflight' = [inflight EXCEPT ![l] = @ + 1]

\* The handler body shared by the live ReferralPaid handler and processEvent's
\* ReferralPaid case: members(from) is read first; when that read throws, the
\* error is logged and no webhook is triggered.
HandleEvent(l, membersOk) ==
  IF emitted[l] = "ReferralPaid" /\ ~membersOk
    THEN /\ dropped' = [dropped EXCEPT ![l] = @ + 1]
         /\ UNCHANGED <<calls, posts, inflight>>
    ELSE /\ TriggerWebhook(l)
         /\ UNCHANGED dropped

\* A live handler runs for log l on instance i.
LiveCallback(i, l, membersOk) ==
  /\ <<i, l>> \in due
  /\ due' = due \ {<<i, l>>}
  /\ HandleEvent(l, membersOk)
  /\ UNCHANGED <<emitted, handlerSets, removed, timers, delivered, failed, run>>

\* The catch block of triggerWebhook: storeFailedWebhook builds a record with
\* retryCount 0 and logs it.  Nothing is kept and nothing is scheduled.
StoreFailedWebhook(l) ==
  /\ failed' = [failed EXCEPT ![l] = @ + 1]
  /\ UNCHANGED <<calls, posts, delivered>>

\* The POST of a call settles: 2xx logs success, anything else (non-2xx,
\* network error) throws into the catch block.
Settle(l, ok) ==
  /\ inflight' = [inflight EXCEPT ![l] = @ - 1]
  /\ IF ok
       THEN /\ delivered' = [delivered EXCEPT ![l] = @ + 1]
            /\ UNCHANGED <<calls, posts, failed>>
       ELSE StoreFailedWebhook(l)

RunPosts(l) == Cardinality({r \in RunIds : run[r].cur = l})

\* The response to a POST made by a live handler.
Respond(l, ok) ==
  /\ inflight[l] > RunPosts(l)
  /\ Settle(l, ok)
  /\ UNCHANGED <<emitted, handlerSets, removed, due, timers, dropped, run>>

\* provider.on('error') -> handleConnectionError: arm a 5 s reconnect timer.
\* Every instance's provider keeps its error handler.
HandleConnectionError(i) ==
  /\ i \in 1..handlerSets
  /\ timers < MaxTimers
  /\ timers' = timers + 1
  /\ UNCHANGED <<emitted, handlerSets, removed, due, calls, posts, inflight,
                 delivered, failed, dropped, run>>

\* reconnect(): a new provider and contract replace this.provider and
\* this.contract and setupEventListeners runs on them; the listeners of the
\* previous contract are not removed.
Reconnect ==
  /\ timers > 0
  /\ handlerSets < MaxHandlerSets
  /\ timers' = timers - 1
  /\ handlerSets' = handlerSets + 1
  /\ UNCHANGED <<emitted, removed, due, calls, posts, inflight, delivered,
                 failed, dropped, run>>

\* reconnect() throws: the catch block arms a 10 s timer for another try.
ReconnectFails ==
  /\ timers > 0
  /\ timers' = (timers - 1) + 1
  /\ UNCHANGED <<emitted, handlerSets, removed, due, calls, posts, inflight,
                 delivered, failed, dropped, run>>

\* stop(): this.contract.removeAllListeners() on the current contract only.
Stop ==
  /\ handlerSets \notin removed
  /\ removed' = removed \cup {handlerSets}
  /\ due' = {d \in due : d[1] # handlerSets}
  /\ UNCHANGED <<emitted, handlerSets, timers, calls, posts, inflight,
                 delivered, failed, dropped, run>>

\* The logs of block range lo..hi in block order (queryFilter('*', lo, hi)).
RECURSIVE RangeSeq(_, _)
RangeSeq(lo, hi) ==
  IF lo > hi THEN <<>>
  ELSE IF lo \in Emitted THEN <<lo>> \o RangeSeq(lo + 1, hi)
  ELSE RangeSeq(lo + 1, hi)

\* fetchMissedEvents(fromBlock, toBlock): queryFilter, then processEvent on
\* each event in turn, awaiting each.
FetchMissedEvents(r, lo, hi) ==
  /\ run[r].st = "idle"
  /\ lo <= hi
  /\ run' = [run EXCEPT ![r] = [st |-> "running", todo |-> RangeSeq(lo, hi), cur |-> 0]]
  /\ UNCHANGED <<emitted, handlerSets, removed, due, timers, calls, posts,
                 inflight, delivered, failed, dropped>>

\* queryFilter throws: the error is logged and the run ends.
FetchQueryFails(r) ==
  /\ run[r].st = "idle"
  /\ run' = [run EXCEPT ![r] = [st |-> "done", todo |-> <<>>, cur |-> 0]]
  /\ UNCHANGED <<emitted, handlerSets, removed, due, timers, calls, posts,
                 inflight, delivered, failed, dropped>>

\* processEvent(event) for the next event of run r; an event name without a
\* case falls through the switch.
ProcessEvent(r, membersOk) ==
  /\ run[r].st = "running"
  /\ run[r].cur = 0
  /\ run[r].todo # <<>>
  /\ LET l == Head(run[r].todo) IN
       IF ~ProcessEventHandles(emitted[l])
         THEN /\ run' = [run EXCEPT ![r].todo = Tail(@)]
              /\ UNCHANGED <<calls, posts, inflight, dropped>>
         ELSE /\ HandleEvent(l, membersOk)
              /\ run' = [run EXCEPT ![r].todo = Tail(@),
                                    ![r].cur = IF emitted[l] = "ReferralPaid" /\ ~membersOk
                                                 THEN 0 ELSE l]
  /\ UNCHANGED <<emitted, handlerSets, removed, due, timers, delivered, failed>>

\* The response to the POST run r awaits; the loop then goes on.
RespondRun(r, ok) ==
  /\ run[r].cur # 0
  /\ Settle(run[r].cur, ok)
  /\ run' = [run EXCEPT ![r].cur = 0]
  /\ UNCHANGED <<emitted, handlerSets, removed, due, timers, dropped>>

\* The loop of fetchMissedEvents ends.
FetchDone(r) ==
  /\ run[r].st = "running"
  /\ run[r].cur = 0
  /\ run[r].todo = <<>>
  /\ run' = [run EXCEPT ![r].st = "done"]
  /\ UNCHANGED <<emitted, handlerSets, removed, due, timers, calls, posts,
                 inflight, delivered, failed, dropped>>

NextDelivery ==
  \/ \E name \in EventNames : Emit(name) /\ DeliveryOnly
  \/ \E i \in HandlerIds, l \in Logs, ok \in BOOLEAN : LiveCallback(i, l, ok) /\ DeliveryOnly
  \/ \E l \in Logs, ok \in BOOLEAN : Respond(l, ok) /\ DeliveryOnly
  \/ \E i \in HandlerIds : HandleConnectionError(i) /\ DeliveryOnly
  \/ Reconnect /\ DeliveryOnly
  \/ ReconnectFails /\ DeliveryOnly
  \/ Stop /\ DeliveryOnly
  \/ \E r \in RunIds, lo \in Logs, hi \in Logs : FetchMissedEvents(r, lo, hi) /\ DeliveryOnly
  \/ \E r \in RunIds : FetchQueryFails(r) /\ DeliveryOnly
  \/ \E r \in RunIds, ok \in BOOLEAN : ProcessEvent(r, ok) /\ DeliveryOnly
  \/ \E r \in RunIds, ok \in BOOLEAN : RespondRun(r, ok) /\ DeliveryOnly
  \/ \E r \in RunIds : FetchDone(r) /\ DeliveryOnly


(***************************************************************************)
(* Users: src/models/User.js; created by ensureUser (middleware/auth.js)   *)
(* and by the bot's /start handler.  A user's referral code is modelled by *)
(* the user's number; code 0 matches no user.                              *)
(***************************************************************************)
Users == 1..MaxUsers
Codes == Users \cup {0}

\* The paths of the User schema (strict by default).
UserSchemaPaths ==
  {"telegramId", "firstName", "lastName", "username", "languageCode",
   "walletAddress", "referralCode", "referredBy", "isActive", "lastActive"}

\* User.findByIdAndUpdate(id, { $inc: { totalReferrals: 1 } }): an update of
\* a path the schema does not declare is stripped before it is sent.
IncTotalReferrals(counts, id) ==
  IF "totalReferrals" \in UserSchemaPaths
    THEN [counts EXCEPT ![id] = @ + 1]
    ELSE counts

\* User.findOne({ referralCode }): the user owning the code, if any.
FindByReferralCode(code) ==
  IF code \in Users /\ userExists[code] THEN code ELSE NoUser

\* new User({...}) with referredBy set only when the code resolves; save().
CreateUser(u, code) ==
  /\ userExists' = [userExists EXCEPT ![u] = TRUE]
  /\ referredBy' = [referredBy EXCEPT ![u] = FindByReferralCode(code)]

\* bot.onText(/\/start(.*)/) of the bot service in src/unnamed/part_011: a
\* new user is created with the referrer of the ref_ code; an existing user
\* is left as it is.
StartCommand(u, code) ==
  /\ IF ~userExists[u]
       THEN CreateUser(u, code)
       ELSE UNCHANGED <<userExists, referredBy>>
  /\ UNCHANGED sessionCode

\* handleStart of src/services/telegramBotService.js: createOrUpdateUser
\* creates the user without a referrer; the ref_ parameter is then handed to
\* this.handleReferralCode, which the class does not define, so the call
\* throws and the handler answers with an error message.
HandleStart(u, code) ==
  /\ IF ~userExists[u]
       THEN CreateUser(u, 0)
       ELSE UNCHANGED <<userExists, referredBy>>
  /\ UNCHANGED sessionCode

\* handleReferralCode (middleware/telegram.js): a ref_ start parameter is
\* stored in the session as it is.
HandleReferralCode(u, code) ==
  /\ sessionCode' = [sessionCode EXCEPT ![u] = code]
  /\ UNCHANGED <<userExists, referredBy>>

\* GET /referral/:code: the code is stored in the session when it resolves.
ReferralPage(u, code) ==
  /\ sessionCode' = [sessionCode EXCEPT ![u] =
                       IF FindByReferralCode(code) # NoUser THEN code ELSE @]
  /\ UNCHANGED <<userExists, referredBy>>

\* ensureUser: creates the user with the session's referral code, or updates
\* the profile fields of an existing user (referredBy is not among them).
EnsureUser(u) ==
  /\ IF ~userExists[u]
       THEN CreateUser(u, sessionCode[u])
       ELSE UNCHANGED <<userExists, referredBy>>
  /\ UNCHANGED sessionCode

InitUsers ==
  /\ userExists = [u \in Users |-> FALSE]
  /\ referredBy = [u \in Users |-> NoUser]
  /\ sessionCode = [u \in Users |-> 0]

\* Every user has registered, users 2.. through the link of user 1.
InitRegistered ==
  /\ userExists = [u \in Users |-> TRUE]
  /\ referredBy = [u \in Users |-> IF u = 1 THEN NoUser ELSE 1]
  /\ sessionCode = [u \in Users |-> 0]

NextUsers ==
  \/ \E u \in Users, c \in Codes : StartCommand(u, c) /\ UsersOnly
  \/ \E u \in Users, c \in Codes : HandleStart(u, c) /\ UsersOnly
  \/ \E u \in Users, c \in Codes : HandleReferralCode(u, c) /\ UsersOnly
  \/ \E u \in Users, c \in Codes : ReferralPage(u, c) /\ UsersOnly
  \/ \E u \in Users : EnsureUser(u) /\ UsersOnly

(***************************************************************************)
(* Referral documents: src/models/Referral.js                              *)
(***************************************************************************)
Statuses == {"pending", "completed", "failed"}
TxHashes == {"0xA", "0xB"}

\* Schema defaults applied by new Referral(data): a path left undefined
\* (None) takes its default; transactionHash has none.
NewReferral(data) ==
  [referrer        |-> data.referrer,
   referee         |-> data.referee,
   planLevel       |-> data.planLevel,
   amount          |-> data.amount,
   transactionHash |-> data.transactionHash,
   status          |-> IF data.status = None THEN "pending" ELSE data.status,
   commissionRate  |-> IF data.commissionRate = NoRate THEN DefaultCommissionRate
                       ELSE data.commissionRate]

\* The tier chain of the pre-save hook.
TierRate(planLevel) ==
  IF planLevel <= 4 THEN 50
  ELSE IF planLevel <= 8 THEN 55
  ELSE IF planLevel <= 12 THEN 60
  ELSE 60

\* pre('save'): the tier is applied only to a new document whose
\* commissionRate is falsy.
PreSave(doc, isNew) ==
  IF isNew /\ doc.commissionRate = 0
    THEN [doc EXCEPT !.commissionRate = TierRate(doc.planLevel)]
    ELSE doc

\* Schema validation run by save().
Validate(doc) ==
  /\ doc.referrer # NoUser
  /\ doc.referee # NoUser
  /\ doc.planLevel >= 1 /\ doc.planLevel <= 16
  /\ doc.commissionRate >= 0 /\ doc.commissionRate <= 100
  /\ doc.status \in Statuses

\* The unique sparse index on transactionHash: a document without the field
\* is not indexed.
DuplicateKey(rows, tx, self) ==
  /\ tx # None
  /\ \E i \in 1..Len(rows) : i # self /\ rows[i].transactionHash = tx

\* new Referral(data).save(): the collection after the call and the error
\* thrown, if any.  sourceTx and givenRate are history fields of the model:
\* the transaction hash of the request that made the row (trackReferral is
\* given none to store) and the commissionRate the caller passed.
SaveNew(rows, data, sourceTx) ==
  LET doc == PreSave(NewReferral(data), TRUE) IN
    IF ~Validate(doc) THEN [rows |-> rows, error |-> "ValidationError"]
    ELSE IF DuplicateKey(rows, doc.transactionHash, 0)
      THEN [rows |-> rows, error |-> "Duplicate referral transaction"]
    ELSE [rows |-> Append(rows, doc @@ [sourceTx |-> sourceTx,
                                        givenRate |-> data.commissionRate]),
          error |-> None]

\* doc.save() of a loaded document i after its fields were changed to doc.
SaveExisting(rows, i, doc) ==
  LET d == PreSave(doc, FALSE) IN
    IF DuplicateKey(rows, d.transactionHash, i)
      THEN [rows |-> rows, error |-> "Duplicate referral transaction"]
      ELSE [rows |-> [rows EXCEPT ![i] = d], error |-> None]

(***************************************************************************)
(* referralController: src/src/controllers/referralController.js          *)
(***************************************************************************)
\* trackReferral: the document is built from the four arguments with status
\* 'completed'; no transaction hash and no rate are passed.
TrackReferralData(referrer, referee, planId, amount) ==
  [referrer |-> referrer, referee |-> referee, planLevel |-> planId,
   amount |-> amount, transactionHash |-> None, status |-> "completed",
   commissionRate |-> NoRate]

\* User.findOne({ walletAddress }): a wallet address is modelled by the
\* number of the user holding it.
FindByWallet(address) == IF userExists[address] THEN address ELSE NoUser

\* POST processReferralCommission: 400 on a missing field, 404 when a user is
\* not found, then this.trackReferral (save, then $inc totalReferrals); an
\* error thrown by trackReferral is answered 500.  bound: the handler runs
\* with the controller as its this; mounted as a bare function reference it
\* does not, and this.trackReferral throws a TypeError.
ProcessReferralCommission(referrerAddress, refereeAddress, amount, planId, tx, bound) ==
  /\ Len(referrals) < MaxRows
  /\ IF tx = None
       THEN /\ lastError' = "400"
            /\ UNCHANGED <<referrals, totalReferrals>>
       ELSE IF FindByWallet(referrerAddress) = NoUser \/ FindByWallet(refereeAddress) = NoUser
         THEN /\ lastError' = "404"
              /\ UNCHANGED <<referrals, totalReferrals>>
         ELSE IF ~bound
           THEN /\ lastError' = "500"
                /\ UNCHANGED <<referrals, totalReferrals>>
         ELSE LET res == SaveNew(referrals,
                           TrackReferralData(referrerAddress, refereeAddress, planId, amount),
                           tx) IN
                IF res.error # None
                  THEN /\ lastError' = "500"
                       /\ UNCHANGED <<referrals, totalReferrals>>
                  ELSE /\ referrals' = res.rows
                       /\ totalReferrals' = IncTotalReferrals(totalReferrals, referrerAddress)
                       /\ lastError' = None

\* bulkImport's loop: every element is saved in its own try block.
RECURSIVE ImportAll(_, _)
ImportAll(rows, list) ==
  IF list = <<>> THEN rows
  ELSE ImportAll(SaveNew(rows, Head(list), Head(list).transactionHash).rows, Tail(list))

\* POST bulkImport: 403 unless the caller holds the contract owner's wallet.
BulkImport(list, isAdmin) ==
  /\ Len(referrals) + Len(list) <= MaxRows
  /\ IF isAdmin
       THEN /\ referrals' = ImportAll(referrals, list)
            /\ lastError' = None
       ELSE /\ lastError' = "403"
            /\ UNCHANGED referrals
  /\ UNCHANGED totalReferrals

(***************************************************************************)
(* DatabaseService: src/unnamed/part_009 lines 449-1086                    *)
(***************************************************************************)
\* createReferral(referralData): save, rethrowing any error.
CreateReferral(data) ==
  /\ Len(referrals) < MaxRows
  /\ LET res == SaveNew(referrals, data, data.transactionHash) IN
       /\ referrals' = res.rows
       /\ lastError' = res.error
  /\ UNCHANGED totalReferrals

\* updateReferralStatus: findByIdAndUpdate sets the status it is given.
UpdateReferralStatus(i, status) ==
  /\ i \in 1..Len(referrals)
  /\ referrals' = [referrals EXCEPT ![i].status = status]
  /\ lastError' = None
  /\ UNCHANGED totalReferrals

\* One findOneAndUpdate({referrer, transactionHash}, {...ref, status:
\* 'completed'}, {upsert: true}) of syncUserReferrals.
SyncOne(rows, userId, ref) ==
  LET hits == {i \in 1..Len(rows) :
                 rows[i].referrer = userId /\ rows[i].transactionHash = ref.transactionHash} IN
    IF hits # {}
      THEN LET i == CHOOSE j \in hits : \A k \in hits : j <= k IN
             [rows |-> [rows EXCEPT ![i].referee = ref.referee,
                                    ![i].planLevel = ref.planLevel,
                                    ![i].amount = ref.amount,
                                    ![i].status = "completed"],
              error |-> None]
      ELSE IF DuplicateKey(rows, ref.transactionHash, 0)
        THEN [rows |-> rows, error |-> "E11000"]
        ELSE [rows |-> Append(rows,
                 [referrer |-> userId, referee |-> ref.referee,
                  planLevel |-> ref.planLevel, amount |-> ref.amount,
                  transactionHash |-> ref.transactionHash, status |-> "completed",
                  commissionRate |-> DefaultCommissionRate,
                  sourceTx |-> ref.transactionHash, givenRate |-> NoRate]),
              error |-> None]

\* syncUserReferrals: the loop stops at the first error, which is rethrown.
RECURSIVE SyncAll(_, _, _)
SyncAll(rows, userId, list) ==
  IF list = <<>> THEN [rows |-> rows, error |-> None]
  ELSE LET res == SyncOne(rows, userId, Head(list)) IN
         IF res.error # None THEN res ELSE SyncAll(res.rows, userId, Tail(list))

SyncUserReferrals(userId, list) ==
  /\ Len(SyncAll(referrals, userId, list).rows) <= MaxRows
  /\ LET res == SyncAll(referrals, userId, list) IN
       /\ referrals' = res.rows
       /\ lastError' = res.error
  /\ UNCHANGED totalReferrals

(***************************************************************************)
(* Instance methods of a loaded Referral document                          *)
(***************************************************************************)
MarkAsPaid(i, tx) ==
  /\ i \in 1..Len(referrals)
  /\ LET res == SaveExisting(referrals, i,
                  [referrals[i] EXCEPT !.status = "completed", !.transactionHash = tx]) IN
       /\ referrals' = res.rows
       /\ lastError' = res.error
  /\ UNCHANGED totalReferrals

MarkAsFailed(i) ==
  /\ i \in 1..Len(referrals)
  /\ LET res == SaveExisting(referrals, i, [referrals[i] EXCEPT !.status = "failed"]) IN
       /\ referrals' = res.rows
       /\ lastError' = res.error
  /\ UNCHANGED totalReferrals


(***************************************************************************)
(* Aggregates.  amount is a String path: it is stored as its decimal       *)
(* digits, $toDouble and parseFloat read the number back, and $sum / $avg  *)
(* over the raw field skip it as non-numeric.                              *)
(***************************************************************************)
RECURSIVE ParseDigits(_)
ParseDigits(digits) ==
  IF digits = <<>> THEN 0
  ELSE 10 * ParseDigits(SubSeq(digits, 1, Len(digits) - 1)) + digits[Len(digits)]

ToDouble(amount) == ParseDigits(amount)

\* The two fraction digits toFixed(2) prints.
Digits2(n) == <<n \div 10, n % 10>>

\* $sum: '$amount' adds numeric values only; a string adds nothing.
SumRawField(amount) == 0

\* $sum: { $toDouble: '$amount' } and the parseFloat reduce over rows idx.
RECURSIVE SumToDouble(_, _)
SumToDouble(rows, idx) ==
  IF idx = {} THEN 0
  ELSE LET i == CHOOSE j \in idx : TRUE IN
         ToDouble(rows[i].amount) + SumToDouble(rows, idx \ {i})

\* $sum: '$amount' over rows idx.
RECURSIVE SumRaw(_, _)
SumRaw(rows, idx) ==
  IF idx = {} THEN 0
  ELSE LET i == CHOOSE j \in idx : TRUE IN
         SumRawField(rows[i].amount) + SumRaw(rows, idx \ {i})

\* The virtual commissionEarned: (parseFloat(amount) / 1000000 *
\* commissionRate / 100).toFixed(2), a decimal string of whole units and two
\* fraction digits.
CommissionEarned(doc) ==
  LET hundredths == (ToDouble(doc.amount) * doc.commissionRate + 500000) \div 1000000 IN
    [whole |-> hundredths \div 100, fraction |-> Digits2(hundredths % 100)]

RowsOf(referrer) == {i \in 1..Len(referrals) : referrals[i].referrer = referrer}
CompletedRowsOf(referrer) == {i \in RowsOf(referrer) : referrals[i].status = "completed"}

\* Referral.getEarningsStats(referrerId): $match on referrer and status
\* 'completed'.
GetEarningsStats(referrer) ==
  [totalEarnings  |-> SumToDouble(referrals, CompletedRowsOf(referrer)),
   totalReferrals |-> Cardinality(CompletedRowsOf(referrer))]

\* Referral.getTopReferrers: $match on status 'completed', grouped by
\* referrer.
GetTopReferrers(referrer) ==
  [totalEarnings  |-> SumToDouble(referrals, CompletedRowsOf(referrer)),
   totalReferrals |-> Cardinality(CompletedRowsOf(referrer))]

\* DatabaseService.getUserStats: Referral.find on referrer and status
\* 'completed', summed with parseFloat.
GetUserStats(referrer) ==
  [totalEarnings  |-> SumToDouble(referrals, CompletedRowsOf(referrer)),
   totalReferrals |-> Cardinality(CompletedRowsOf(referrer))]

\* $avg: '$amount' over a group: null when no value of the group is numeric.
AvgRaw(rows, idx) == None

\* referralController.getLeaderboard: $match on the date filter only, $sum
\* and $avg over the raw amount field; the response maps toFixed over every
\* entry's total and average, and a null average throws into the catch block.
GetLeaderboard(referrer) ==
  IF \E u \in Users : RowsOf(u) # {} /\ AvgRaw(referrals, RowsOf(u)) = None
    THEN [status |-> "500"]
    ELSE [status |-> "200",
          totalEarnings  |-> SumRaw(referrals, RowsOf(referrer)),
          totalReferrals |-> Cardinality(RowsOf(referrer))]

\* referralController.getAnalytics: $match on referrer and the period only.
GetAnalytics(referrer) ==
  [totalEarnings  |-> SumRaw(referrals, RowsOf(referrer)),
   totalReferrals |-> Cardinality(RowsOf(referrer))]

(***************************************************************************)
(* Inputs of the ledger operations.                                        *)
(***************************************************************************)
PlanInputs == {5}
AmountInputs == {<<5, 0, 0, 0, 0, 0, 0>>}

ReferralData ==
  [referrer : Users, referee : Users, planLevel : PlanInputs,
   amount : AmountInputs, transactionHash : TxHashes \cup {None},
   status : Statuses \cup {None}, commissionRate : {NoRate}]

\* Lists of n elements; a longer list is one referrer's history with one
\* referee.
ImportLists(n) ==
  IF n = 1 THEN {<<d>> : d \in ReferralData}
  ELSE {l \in [1..n -> ReferralData] :
          \A i \in 1..n : l[i].referrer = l[1].referrer /\ l[i].referee = l[1].referee}

SyncRefs ==
  [referee : Users, planLevel : PlanInputs, amount : AmountInputs,
   transactionHash : TxHashes]

SyncLists(n) == [1..n -> SyncRefs]

\* Documents saved with every plan level, without a rate and with one.
PlanLevels == 1..16
RateInputs == {NoRate, 0, 50, 70}

RateData ==
  [referrer : {1}, referee : {2}, planLevel : PlanLevels,
   amount : AmountInputs, transactionHash : {None}, status : {None},
   commissionRate : RateInputs]

InitLedger ==
  /\ totalReferrals = [u \in Users |-> 0]
  /\ referrals = <<>>
  /\ lastError = None

NextLedger ==
  \/ \E a \in Users, b \in Users, amt \in AmountInputs, p \in PlanInputs,
        tx \in TxHashes \cup {None}, bound \in BOOLEAN :
          ProcessReferralCommission(a, b, amt, p, tx, bound) /\ LedgerOnly
  \/ \E n \in 1..MaxList : Len(referrals) + n <= MaxRows
        /\ \E list \in ImportLists(n), isAdmin \in BOOLEAN : BulkImport(list, isAdmin) /\ LedgerOnly
  \/ \E d \in ReferralData : CreateReferral(d) /\ LedgerOnly
  \/ \E i \in 1..MaxRows, st \in Statuses : UpdateReferralStatus(i, st) /\ LedgerOnly
  \/ \E n \in 1..MaxList : Len(referrals) + n <= MaxRows
        /\ \E u \in Users, list \in SyncLists(n) : SyncUserReferrals(u, list) /\ LedgerOnly
  \/ \E i \in 1..MaxRows, tx \in TxHashes : MarkAsPaid(i, tx) /\ LedgerOnly
  \/ \E i \in 1..MaxRows : MarkAsFailed(i) /\ LedgerOnly


(***************************************************************************)
(* Membership mirror: Web3Service.getMemberInfo and the handlers that      *)
(* write Membership documents                                              *)
(***************************************************************************)
Wallets == 1..MaxWallets

\* req.user without a walletAddress.
NoWallet == 0

\* BigInt.prototype.toString: the decimal digits of n.
RECURSIVE Digits(_)
Digits(n) ==
  IF n < 10 THEN <<n>> ELSE Digits(n \div 10) \o <<n % 10>>

\* parseInt of a decimal string.
ParseInt(str) == ParseDigits(str)

\* What members(address) and balanceOf(address) answer for an address.
NotMember ==
  [balance |-> 0, planId |-> 0, cycleNumber |-> 0, totalEarnings |-> 0,
   totalReferrals |-> 0]

ChainMembers ==
  {[balance |-> 1, planId |-> 1, cycleNumber |-> 1, totalEarnings |-> 0,
    totalReferrals |-> 0],
   [balance |-> 1, planId |-> 2, cycleNumber |-> 2, totalEarnings |-> 30,
    totalReferrals |-> 12]}

ChainStates == {NotMember} \cup ChainMembers

\* How one getMemberInfo call goes: both reads answer, members() rejects,
\* balanceOf() rejects after members() answered, or the struct lacks a field.
ReadOutcomes == {"ok", "membersRejects", "balanceOfRejects", "fieldMissing"}

Thrown == [kind |-> "throw"]
Null == [kind |-> "null"]

\* Web3Service.getMemberInfo
GetMemberInfo(walletAddress, outcome) ==
  IF outcome # "ok" THEN Thrown
  ELSE IF Digits(chain[walletAddress].balance) = <<0>> THEN Null
  ELSE [kind |-> "data",
        totalReferrals |-> Digits(chain[walletAddress].totalReferrals),
        totalEarnings |-> Digits(chain[walletAddress].totalEarnings),
        planId |-> Digits(chain[walletAddress].planId),
        cycleNumber |-> Digits(chain[walletAddress].cycleNumber)]

NoMembership ==
  [exists |-> FALSE, planId |-> 0, cycleNumber |-> 0, totalEarnings |-> <<>>,
   totalReferrals |-> 0, isActive |-> FALSE]

\* new Membership({planId, ...}) with the schema defaults.
NewMembership(planId) ==
  [exists |-> TRUE, planId |-> planId, cycleNumber |-> 1, totalEarnings |-> <<0>>,
   totalReferrals |-> 0, isActive |-> TRUE]

\* Membership.findOne({walletAddress, isActive: true}) found a document.
FindActive(m) == m.exists /\ m.isActive

\* A refresh that resets the mirrored fields to the schema defaults whenever
\* no member data came back.
RefreshRecordResetting(m, blockchainData) ==
  IF ~FindActive(m) THEN m
  ELSE IF blockchainData.kind = "data"
  THEN [m EXCEPT !.totalEarnings = blockchainData.totalEarnings,
                 !.totalReferrals = ParseInt(blockchainData.totalReferrals),
                 !.planId = ParseInt(blockchainData.planId),
                 !.cycleNumber = ParseInt(blockchainData.cycleNumber)]
  ELSE [m EXCEPT !.totalEarnings = <<0>>, !.totalReferrals = 0, !.cycleNumber = 1]

\* POST /api/membership/refresh: the document after the handler.
ApiRefreshRecord(m, blockchainData) ==
  IF blockchainData.kind = "data" /\ FindActive(m)
  THEN [m EXCEPT !.totalEarnings = blockchainData.totalEarnings,
                 !.totalReferrals = ParseInt(blockchainData.totalReferrals),
                 !.planId = ParseInt(blockchainData.planId),
                 !.cycleNumber = ParseInt(blockchainData.cycleNumber)]
  ELSE m

\* POST /membership/api/refresh: the document after the handler.
RouteRefreshRecord(m, blockchainData) ==
  IF blockchainData.kind = "data" /\ FindActive(m)
  THEN [m EXCEPT !.totalEarnings = blockchainData.totalEarnings,
                 !.totalReferrals = ParseInt(blockchainData.totalReferrals),
                 !.planId = ParseInt(blockchainData.planId),
                 !.cycleNumber = ParseInt(blockchainData.cycleNumber)]
  ELSE m

\* showDashboard: the document after the handler.
DashboardRecord(m, blockchainData) ==
  IF blockchainData.kind = "data"
  THEN [m EXCEPT !.totalEarnings = blockchainData.totalEarnings,
                 !.totalReferrals = ParseInt(blockchainData.totalReferrals),
                 !.planId = ParseInt(blockchainData.planId)]
  ELSE m

\* syncMembershipData: the document after the call.
SyncRecord(m, blockchainData) ==
  IF blockchainData.kind = "data"
  THEN [m EXCEPT !.totalEarnings = blockchainData.totalEarnings,
                 !.totalReferrals = ParseInt(blockchainData.totalReferrals),
                 !.cycleNumber = ParseInt(blockchainData.cycleNumber)]
  ELSE m

Answer(op, wallet, read, status) ==
  [op |-> op, wallet |-> wallet, read |-> read, status |-> status]

\* POST /api/membership/refresh
ApiRefresh(w, outcome) ==
  IF w = NoWallet
  THEN /\ response' = Answer("apiRefresh", w, None, "401")
       /\ UNCHANGED <<chain, membership>>
  ELSE LET blockchainData == GetMemberInfo(w, outcome) IN
       /\ membership' = [membership EXCEPT ![w] = ApiRefreshRecord(@, blockchainData)]
       /\ response' = Answer("apiRefresh", w, outcome,
                             IF blockchainData.kind = "throw" THEN "500" ELSE "200")
       /\ UNCHANGED chain

\* POST /membership/api/refresh
RouteRefresh(w, outcome) ==
  IF w = NoWallet
  THEN /\ response' = Answer("routeRefresh", w, None, "401")
       /\ UNCHANGED <<chain, membership>>
  ELSE LET blockchainData == GetMemberInfo(w, outcome) IN
       /\ membership' = [membership EXCEPT ![w] = RouteRefreshRecord(@, blockchainData)]
       /\ response' = Answer("routeRefresh", w, outcome,
                             IF blockchainData.kind = "throw" THEN "500" ELSE "200")
       /\ UNCHANGED chain

\* membershipController.showDashboard; statsOk: getSystemStats answered.
ShowDashboard(w, outcome, statsOk) ==
  IF w = NoWallet \/ ~FindActive(membership[w])
  THEN /\ response' = Answer("showDashboard", w, None, "redirect")
       /\ UNCHANGED <<chain, membership>>
  ELSE LET blockchainData == GetMemberInfo(w, outcome) IN
       /\ membership' = [membership EXCEPT ![w] = DashboardRecord(@, blockchainData)]
       /\ response' = Answer("showDashboard", w, outcome,
                             IF blockchainData.kind = "throw" \/ ~statsOk
                             THEN "500" ELSE "200")
       /\ UNCHANGED chain

\* DatabaseService.syncMembershipData, handed what getMemberInfo returned.
SyncMembershipData(w) ==
  LET blockchainData == GetMemberInfo(w, "ok") IN
  /\ membership' =
       [membership EXCEPT ![w] = IF @.exists THEN SyncRecord(@, blockchainData) ELSE @]
  /\ response' = Answer("syncMembershipData", w, "ok",
                        IF ~membership[w].exists THEN "null"
                        ELSE IF blockchainData.kind = "null" THEN "thrown"
                        ELSE "returned")
  /\ UNCHANGED chain

\* The document after POST /api/membership/update or updateMembership.
UpdatedRecord(m, planId) ==
  IF m.exists THEN [m EXCEPT !.planId = planId, !.isActive = TRUE]
  ELSE NewMembership(planId)

\* POST /api/membership/update; txOk: getTransaction found a mined transaction.
ApiMembershipUpdate(w, planId, txOk) ==
  /\ membership' = [membership EXCEPT ![w] = IF txOk THEN UpdatedRecord(@, planId) ELSE @]
  /\ response' = Answer("apiMembershipUpdate", w, None, IF txOk THEN "200" ELSE "400")
  /\ UNCHANGED chain

\* membershipController.updateMembership
UpdateMembership(w, planId, txOk) ==
  /\ membership' = [membership EXCEPT ![w] = IF txOk THEN UpdatedRecord(@, planId) ELSE @]
  /\ response' = Answer("updateMembership", w, None, IF txOk THEN "200" ELSE "400")
  /\ UNCHANGED chain

\* POST /membership/api/exit
ExitMembership(w, txOk) ==
  /\ membership' =
       [membership EXCEPT ![w] =
          IF txOk /\ FindActive(@) THEN [@ EXCEPT !.isActive = FALSE] ELSE @]
  /\ response' = Answer("exit", w, None, IF txOk THEN "200" ELSE "400")
  /\ UNCHANGED chain

\* The contract's state for an address changes on chain.
ChainChange(w, s) ==
  /\ chain[w] # s
  /\ chain' = [chain EXCEPT ![w] = s]
  /\ UNCHANGED <<membership, response>>

PlanIds == {1, 2}

InitMirror ==
  /\ chain = [w \in Wallets |-> NotMember]
  /\ membership = [w \in Wallets |-> NoMembership]
  /\ response = Answer(None, NoWallet, None, None)

NextMirror ==
  \/ \E w \in Wallets \cup {NoWallet}, o \in ReadOutcomes : ApiRefresh(w, o) /\ MirrorOnly
  \/ \E w \in Wallets \cup {NoWallet}, o \in ReadOutcomes : RouteRefresh(w, o) /\ MirrorOnly
  \/ \E w \in Wallets \cup {NoWallet}, o \in ReadOutcomes, statsOk \in BOOLEAN :
       ShowDashboard(w, o, statsOk) /\ MirrorOnly
  \/ \E w \in Wallets : SyncMembershipData(w) /\ MirrorOnly
  \/ \E w \in Wallets, planId \in PlanIds, txOk \in BOOLEAN :
       ApiMembershipUpdate(w, planId, txOk) /\ MirrorOnly
  \/ \E w \in Wallets, planId \in PlanIds, txOk \in BOOLEAN :
       UpdateMembership(w, planId, txOk) /\ MirrorOnly
  \/ \E w \in Wallets, txOk \in BOOLEAN : ExitMembership(w, txOk) /\ MirrorOnly
  \/ \E w \in Wallets, s \in ChainStates : ChainChange(w, s) /\ MirrorOnly


(***************************************************************************)
(* Webhook receiver: src/routes/webhook.js (src/unnamed/part_006 lines     *)
(* 271-441) and the request triggerWebhook sends to it.                    *)
(***************************************************************************)
\* The literal both sides fall back to when WEBHOOK_SECRET is not set.
DefaultSecret == "your-secret-token"

\* process.env.WEBHOOK_SECRET || 'your-secret-token'
WebhookSecret == IF env.WEBHOOK_SECRET = None THEN DefaultSecret ELSE env.WEBHOOK_SECRET

\* `Bearer ${token}`
Bearer(token) == <<"Bearer", token>>

\* A request without an Authorization header.
NoHeader == <<>>

\* Authorization headers a request may carry.
Headers ==
  {NoHeader} \cup {Bearer(t) : t \in {"s3cret", DefaultSecret, "guess"}}
         \cup {<<"Basic", "s3cret">>}

\* The routes the router declares, and whether authenticateWebhook guards
\* them.
WebhookRoutes ==
  {"/member-registered", "/commission-paid", "/plan-upgraded", "/system-alert",
   "/test-notification"}

Authenticated(route) == route # "/test-notification"

\* The keys of the JSON body triggerWebhook sends for an event: the handler's
\* data object spread, plus timestamp and network.
PayloadKeys(name) ==
  CASE name = "MemberRegistered"  ->
         {"memberAddress", "uplineAddress", "planId", "cycleNumber",
          "transactionHash", "blockNumber"}
    [] name = "ReferralPaid"      ->
         {"recipientAddress", "fromAddress", "amount", "planId",
          "transactionHash", "blockNumber"}
    [] name = "PlanUpgraded"      ->
         {"memberAddress", "oldPlanId", "newPlanId", "cycleNumber",
          "transactionHash", "blockNumber"}
    [] name = "MemberExited"      ->
         {"memberAddress", "refundAmount", "transactionHash", "blockNumber"}
    [] name = "NewCycleStarted"   ->
         {"planId", "cycleNumber", "transactionHash", "blockNumber"}
    [] name = "EmergencyWithdraw" ->
         {"type", "message", "severity", "transactionHash", "blockNumber"}

\* The request triggerWebhook builds.
OutboundRequest(name) ==
  [route  |-> Endpoint(name),
   header |-> Bearer(WebhookSecret),
   body   |-> PayloadKeys(name) \cup {"timestamp", "network"}]

WebhookAnswer(route, header, status) ==
  [route |-> route, header |-> header, status |-> status]

\* One request to the router.  found: the users the route looks up exist (for
\* /system-alert: ADMIN_TELEGRAM_ID is set; for /test-notification: the body's
\* type is one of the three the switch knows); sendOk: the plan lookup and the
\* bot call succeed.
ReceiveWebhook(route, header, found, sendOk) ==
  /\ notified < MaxNotified
  /\ IF route \notin WebhookRoutes
       THEN /\ webhookAnswer' = WebhookAnswer(route, header, "404")
            /\ UNCHANGED notified
     ELSE IF Authenticated(route) /\ header # Bearer(WebhookSecret)
       THEN /\ webhookAnswer' = WebhookAnswer(route, header, "401")
            /\ UNCHANGED notified
     ELSE IF route = "/test-notification" /\ env.NODE_ENV = "production"
       THEN /\ webhookAnswer' = WebhookAnswer(route, header, "404")
            /\ UNCHANGED notified
     ELSE IF ~found
       THEN /\ webhookAnswer' = WebhookAnswer(route, header, "200")
            /\ UNCHANGED notified
     ELSE IF ~sendOk
       THEN /\ webhookAnswer' = WebhookAnswer(route, header, "500")
            /\ UNCHANGED notified
     ELSE /\ webhookAnswer' = WebhookAnswer(route, header, "200")
          /\ notified' = notified + 1
  /\ UNCHANGED env

\* The listener's POST for an event arrives at the router.
DeliverWebhook(name, found, sendOk) ==
  ReceiveWebhook(OutboundRequest(name).route, OutboundRequest(name).header,
                 found, sendOk)

EnvNames ==
  {"WEBHOOK_SECRET", "NODE_ENV", "RPC_URL", "CONTRACT_ADDRESS",
   "USDT_CONTRACT_ADDRESS", "MONGODB_URI"}

\* Values of the connection settings: a usable one and one that is present
\* but not a URL / not a 20-byte hex address.
Valid == "valid"
Malformed == "malformed"

\* The environment the web process answers webhooks in: any secret and mode,
\* the connection settings all usable.
InitEnv ==
  env \in {e \in [EnvNames -> {None, "s3cret", "production", Valid}] :
             /\ e.WEBHOOK_SECRET \in {None, "s3cret"}
             /\ e.NODE_ENV \in {None, "production"}
             /\ \A n \in EnvNames \ {"WEBHOOK_SECRET", "NODE_ENV"} : e[n] = Valid}

InitWebhook ==
  /\ notified = 0
  /\ webhookAnswer = WebhookAnswer(None, NoHeader, None)

NextWebhook ==
  \/ \E route \in WebhookRoutes, h \in Headers, found \in BOOLEAN, sendOk \in BOOLEAN :
       ReceiveWebhook(route, h, found, sendOk) /\ WebhookOnly
  \/ \E name \in EventNames, found \in BOOLEAN, sendOk \in BOOLEAN :
       DeliverWebhook(name, found, sendOk) /\ WebhookOnly

\* The environment with every variable set.
InitEnvSet ==
  env = [n \in EnvNames |->
           CASE n = "NODE_ENV" -> "production"
             [] n = "WEBHOOK_SECRET" -> "s3cret"
             [] OTHER -> Valid]

(***************************************************************************)
(* Startup: scripts/eventListener.js init(), the ContractEventListener     *)
(* constructor and the Web3Config constructor.                             *)
(***************************************************************************)
ListenerProc(state, secret, header) ==
  [state |-> state, secret |-> secret, header |-> header]

\* Web3Config.validateConfig: TRUE when it returns, FALSE when it throws.
ValidateConfig ==
  /\ env.RPC_URL # None
  /\ env.CONTRACT_ADDRESS # None
  /\ env.USDT_CONTRACT_ADDRESS # None
  /\ env.CONTRACT_ADDRESS # Malformed
  /\ env.USDT_CONTRACT_ADDRESS # Malformed

\* require('../config/web3'): the constructor validates, then builds the
\* provider; providerOk: new ethers.JsonRpcProvider(rpcUrl) returns.
LoadWeb3Config(providerOk) ==
  /\ web3Config = "notLoaded"
  /\ web3Config' = IF ValidateConfig /\ (env.RPC_URL = Valid \/ providerOk)
                     THEN "loaded" ELSE "threw"
  /\ UNCHANGED listenerProc

\* StandaloneEventListener.init: connectDatabase, then new
\* ContractEventListener().  The constructor checks nothing itself; clientOk is
\* whether the ethers constructors accept an RPC URL or a contract address
\* that is absent or malformed.
StartListener(clientOk) ==
  /\ listenerProc.state = "notStarted"
  /\ listenerProc' =
       IF env.MONGODB_URI # Valid
         THEN ListenerProc("exited", None, NoHeader)
       ELSE IF (env.RPC_URL # Valid \/ env.CONTRACT_ADDRESS # Valid) /\ ~clientOk
         THEN ListenerProc("exited", None, NoHeader)
       ELSE ListenerProc("running", WebhookSecret, NoHeader)
  /\ UNCHANGED web3Config

\* The running listener posts an event: the header triggerWebhook sends.
ListenerPost ==
  /\ listenerProc.state = "running"
  /\ listenerProc.header = NoHeader
  /\ listenerProc' = [listenerProc EXCEPT !.header = Bearer(listenerProc.secret)]
  /\ UNCHANGED web3Config

InitStartup ==
  /\ listenerProc = ListenerProc("notStarted", None, NoHeader)
  /\ web3Config = "notLoaded"

\* Any environment a deployment may start the processes in.
InitEnvStartup ==
  env \in {e \in [EnvNames -> {None, "s3cret", "production", Valid, Malformed}] :
             /\ e.WEBHOOK_SECRET \in {None, "s3cret"}
             /\ e.NODE_ENV = "production"
             /\ \A n \in EnvNames \ {"WEBHOOK_SECRET", "NODE_ENV"} :
                  e[n] \in {None, Valid, Malformed}}

NextStartup ==
  \/ \E providerOk \in BOOLEAN : LoadWeb3Config(providerOk) /\ StartupOnly
  \/ \E clientOk \in BOOLEAN : StartListener(clientOk) /\ StartupOnly
  \/ ListenerPost /\ StartupOnly

(***************************************************************************)
(* Concurrent requests: processReferralCommission / trackReferral and      *)
(* syncUserReferrals split at their awaits.                                *)
(***************************************************************************)
Workers == 1..MaxWorkers

\* The referrer and the referee of the event the requests are about.
RaceReferrer == 1
RaceReferee == 2

Worker(pc, kind, tx, hit) == [pc |-> pc, kind |-> kind, tx |-> tx, hit |-> hit]

Idle == Worker("idle", None, None, FALSE)

\* A request arrives and has looked up its users.
StartWorker(w, kind, tx) ==
  /\ workers[w].pc = "idle"
  /\ workers' = [workers EXCEPT ![w] = Worker("started", kind, tx, FALSE)]
  /\ UNCHANGED <<referrals, totalReferrals>>

\* trackReferral up to its first await: new Referral({...}).save().
TrackSave(w) ==
  /\ workers[w].pc = "started" /\ workers[w].kind = "track"
  /\ Len(referrals) < MaxRows
  /\ \E amt \in AmountInputs, p \in PlanInputs :
       LET res == SaveNew(referrals,
                          TrackReferralData(RaceReferrer, RaceReferee, p, amt),
                          workers[w].tx) IN
         IF res.error # None
           THEN /\ workers' = [workers EXCEPT ![w].pc = "rejected"]
                /\ UNCHANGED referrals
           ELSE /\ workers' = [workers EXCEPT ![w].pc = "saved"]
                /\ referrals' = res.rows
  /\ UNCHANGED totalReferrals

\* trackReferral after the save: User.findByIdAndUpdate with $inc.
TrackInc(w) ==
  /\ workers[w].pc = "saved"
  /\ totalReferrals' = IncTotalReferrals(totalReferrals, RaceReferrer)
  /\ workers' = [workers EXCEPT ![w].pc = "done"]
  /\ UNCHANGED referrals

\* The query half of findOneAndUpdate({referrer, transactionHash}, ...,
\* {upsert: true}): whether a document matches.
SyncFind(w) ==
  /\ workers[w].pc = "started" /\ workers[w].kind = "sync"
  /\ workers' = [workers EXCEPT
       ![w].pc = "queried",
       ![w].hit = \E i \in 1..Len(referrals) :
                     /\ referrals[i].referrer = RaceReferrer
                     /\ referrals[i].transactionHash = workers[w].tx]
  /\ UNCHANGED <<referrals, totalReferrals>>

\* The write half: the update of the matched document, or the insert, which
\* the unique index on transactionHash may reject.
SyncWrite(w) ==
  /\ workers[w].pc = "queried"
  /\ Len(referrals) < MaxRows
  /\ \E amt \in AmountInputs, p \in PlanInputs :
       LET ref == [referee |-> RaceReferee, planLevel |-> p, amount |-> amt,
                   transactionHash |-> workers[w].tx] IN
         IF workers[w].hit
           THEN /\ referrals' = SyncOne(referrals, RaceReferrer, ref).rows
                /\ workers' = [workers EXCEPT ![w].pc = "done"]
         ELSE IF DuplicateKey(referrals, ref.transactionHash, 0)
           THEN /\ workers' = [workers EXCEPT ![w].pc = "rejected"]
                /\ UNCHANGED referrals
         ELSE /\ referrals' = referrals \o SyncOne(<<>>, RaceReferrer, ref).rows
              /\ workers' = [workers EXCEPT ![w].pc = "done"]
  /\ UNCHANGED totalReferrals

InitRace == workers = [w \in Workers |-> Idle]

NextRace ==
  \/ \E w \in Workers, kind \in {"track", "sync"}, tx \in TxHashes :
       StartWorker(w, kind, tx) /\ RaceOnly
  \/ \E w \in Workers : TrackSave(w) /\ RaceOnly
  \/ \E w \in Workers : TrackInc(w) /\ RaceOnly
  \/ \E w \in Workers : SyncFind(w) /\ RaceOnly
  \/ \E w \in Workers : SyncWrite(w) /\ RaceOnly

(***************************************************************************)
(* Parsed events recorded in the ledger: ContractService.parseEvents and   *)
(* the DatabaseService writers.                                            *)
(***************************************************************************)
LogIndexes == 1..MaxLogIndex

\* The events parseEvents returns for receipts: each carries the transaction
\* hash and the log index of its log.
ParsedEvents == [transactionHash : TxHashes, logIndex : LogIndexes]

\* The document data made from a parsed ReferralPaid event: the Referral
\* schema has a transactionHash path and no path for the log index.
EventReferralData(ev, referrer, referee, p, amt) ==
  [referrer |-> referrer, referee |-> referee, planLevel |-> p, amount |-> amt,
   transactionHash |-> ev.transactionHash, status |-> "completed",
   commissionRate |-> NoRate]

\* An event is recorded through createReferral.
IngestCreate(ev, referrer, referee) ==
  /\ \E p \in PlanInputs, amt \in AmountInputs :
       CreateReferral(EventReferralData(ev, referrer, referee, p, amt))
  /\ ingested' = ingested \cup {ev}

\* An event is recorded through syncUserReferrals.
IngestSync(ev, referrer, referee) ==
  /\ \E p \in PlanInputs, amt \in AmountInputs :
       SyncUserReferrals(referrer,
         <<[referee |-> referee, planLevel |-> p, amount |-> amt,
            transactionHash |-> ev.transactionHash]>>)
  /\ ingested' = ingested \cup {ev}

InitEvents == ingested = {}

NextEvents ==
  \/ \E ev \in ParsedEvents, a \in Users, b \in Users : IngestCreate(ev, a, b) /\ EventOnly
  \/ \E ev \in ParsedEvents, a \in Users, b \in Users : IngestSync(ev, a, b) /\ EventOnly

(***************************************************************************)
(* Event parsing: ContractService.parseEvents (src/unnamed/part_009 lines  *)
(* 271-300) and Web3Config.parseEventLogs.                                 *)
(***************************************************************************)
\* What a raw log of a receipt can be: a log of the contract with a known
\* event, one with a topic the ABI does not know, one whose data does not
\* decode, a log of another contract, and an entry without an address.
LogKinds ==
  {"MemberRegistered", "ReferralPaid", "unknownTopic", "badData", "otherAddress",
   "noAddress"}

\* The logs of a receipt: log k carries logIndex k.
Receipts == UNION {[1..n -> LogKinds] : n \in 1..MaxBatch}

\* The ethers major version in use: parseLog of an unknown topic throws in
\* v5 and returns null in v6.
EthersVersions == {"v5", "v6"}

\* contract.interface.parseLog(log)
ParseLog(kind, lib) ==
  CASE kind \in {"MemberRegistered", "ReferralPaid"} -> [kind |-> "ok", name |-> kind]
    [] kind = "unknownTopic" -> IF lib = "v5" THEN Thrown ELSE Null
    [] OTHER -> Thrown

\* The body of the for loop for log k: the event pushed, or nothing.  An
\* exception (toLowerCase of a missing address, parseLog throwing, .name of
\* null) is caught by the try block inside the loop.
ParsedOf(logs, k, eventName, lib) ==
  IF logs[k] = "noAddress" THEN <<>>
  ELSE IF logs[k] = "otherAddress" THEN <<>>
  ELSE LET p == ParseLog(logs[k], lib) IN
         IF p.kind # "ok" THEN <<>>
         ELSE IF eventName = None \/ p.name = eventName
           THEN <<[name |-> p.name, logIndex |-> k]>>
           ELSE <<>>

RECURSIVE ParseFrom(_, _, _, _)
ParseFrom(logs, k, eventName, lib) ==
  IF k > Len(logs) THEN <<>>
  ELSE ParsedOf(logs, k, eventName, lib) \o ParseFrom(logs, k + 1, eventName, lib)

\* The loop without its inner try block: the first log that throws ends the
\* batch with what the outer catch returns, [].
RECURSIVE AbortingFrom(_, _, _, _)
AbortingFrom(logs, k, eventName, lib) ==
  IF k > Len(logs) THEN [ok |-> TRUE, events |-> <<>>]
  ELSE IF logs[k] = "noAddress" \/ (logs[k] # "otherAddress" /\ ParseLog(logs[k], lib).kind # "ok")
    THEN [ok |-> FALSE, events |-> <<>>]
  ELSE LET rest == AbortingFrom(logs, k + 1, eventName, lib) IN
         [ok |-> rest.ok,
          events |-> IF rest.ok THEN ParsedOf(logs, k, eventName, lib) \o rest.events
                     ELSE <<>>]

ParseEventsAborting(logs, eventName, lib) == AbortingFrom(logs, 1, eventName, lib).events

\* parseEvents(receipt, eventName)
ParseEvents(logs, eventName, lib) == ParseFrom(logs, 1, eventName, lib)

NotParsed == [done |-> FALSE, filter |-> None, events |-> <<>>]

\* A receipt arrives.
NewReceipt(logs) ==
  /\ parsed.done
  /\ receipt' = logs
  /\ parsed' = NotParsed

\* parseEvents is called on the receipt at hand.
Parse(eventName, lib) ==
  /\ ~parsed.done
  /\ parsed' = [done |-> TRUE, filter |-> eventName,
                events |-> ParseEvents(receipt, eventName, lib)]
  /\ UNCHANGED receipt

InitParse ==
  /\ receipt = <<"MemberRegistered">>
  /\ parsed = NotParsed

(***************************************************************************)
(* Database connection: src/src/config/database.js                         *)
(***************************************************************************)
\* connectDB up to its await: return when connected, else count the attempt
\* and call mongoose.connect.
ConnectDBBody ==
  IF isConnected
    THEN UNCHANGED <<connectionAttempts, connecting>>
    ELSE /\ connectionAttempts' = connectionAttempts + 1
         /\ connecting' = connecting + 1

\* An explicit connectDB() call (the module's own call on load included).
ConnectDB ==
  /\ connectionAttempts < MaxAttempts
  /\ ConnectDBBody
  /\ UNCHANGED <<isConnected, retryTimers, disconnectTimers, disconnectHandlers>>

\* reconnectDatabase()
ReconnectDatabase ==
  /\ connectionAttempts < MaxAttempts
  /\ IF ~isConnected /\ connectionAttempts < MAX_RETRY_ATTEMPTS
       THEN ConnectDBBody
       ELSE UNCHANGED <<connectionAttempts, connecting>>
  /\ UNCHANGED <<isConnected, retryTimers, disconnectTimers, disconnectHandlers>>

\* mongoose.connect settles for one waiting connectDB call.  Resolved: the
\* flag is set, the counter reset and the connection handlers registered
\* (again).  Rejected: the flag is cleared and a retry timer is set while the
\* counter is below the maximum.
ConnectSettles(ok) ==
  /\ connecting > 0
  /\ connecting' = connecting - 1
  /\ IF ok
       THEN /\ disconnectHandlers < MaxDbHandlers
            /\ isConnected' = TRUE
            /\ connectionAttempts' = 0
            /\ disconnectHandlers' = disconnectHandlers + 1
            /\ UNCHANGED retryTimers
       ELSE /\ isConnected' = FALSE
            /\ retryTimers' = IF connectionAttempts < MAX_RETRY_ATTEMPTS
                                THEN retryTimers + 1 ELSE retryTimers
            /\ retryTimers' <= MaxDbTimers
            /\ UNCHANGED <<connectionAttempts, disconnectHandlers>>
  /\ UNCHANGED disconnectTimers

\* A timer of the catch block fires: connectDB().
RetryTimerFires ==
  /\ retryTimers > 0
  /\ connectionAttempts < MaxAttempts
  /\ retryTimers' = retryTimers - 1
  /\ ConnectDBBody
  /\ UNCHANGED <<isConnected, disconnectTimers, disconnectHandlers>>

\* The connection emits 'disconnected': every registered handler clears the
\* flag and sets a timer.
Disconnected ==
  /\ isConnected
  /\ disconnectTimers + disconnectHandlers <= MaxDbTimers
  /\ isConnected' = FALSE
  /\ disconnectTimers' = disconnectTimers + disconnectHandlers
  /\ UNCHANGED <<connectionAttempts, connecting, retryTimers, disconnectHandlers>>

\* A timer of a 'disconnected' handler fires.
DisconnectTimerFires ==
  /\ disconnectTimers > 0
  /\ connectionAttempts < MaxAttempts
  /\ disconnectTimers' = disconnectTimers - 1
  /\ IF ~isConnected /\ connectionAttempts < MAX_RETRY_ATTEMPTS
       THEN ConnectDBBody
       ELSE UNCHANGED <<connectionAttempts, connecting>>
  /\ UNCHANGED <<isConnected, retryTimers, disconnectHandlers>>

\* The connection emits 'reconnected'.
Reconnected ==
  /\ disconnectHandlers > 0
  /\ ~isConnected
  /\ isConnected' = TRUE
  /\ UNCHANGED <<connectionAttempts, connecting, retryTimers, disconnectTimers,
                 disconnectHandlers>>

\* The module as loaded, before its own connectDB() call.
InitDb ==
  /\ isConnected = FALSE
  /\ connectionAttempts = 0
  /\ connecting = 0
  /\ retryTimers = 0
  /\ disconnectTimers = 0
  /\ disconnectHandlers = 0

NextDb ==
  \/ ConnectDB /\ DbOnly
  \/ ReconnectDatabase /\ DbOnly
  \/ \E ok \in BOOLEAN : ConnectSettles(ok) /\ DbOnly
  \/ RetryTimerFires /\ DbOnly
  \/ Disconnected /\ DbOnly
  \/ DisconnectTimerFires /\ DbOnly
  \/ Reconnected /\ DbOnly

(***************************************************************************)
(* Shutdown of the standalone listener: scripts/eventListener.js lines     *)
(* 64-122.                                                                 *)
(***************************************************************************)
\* What calls gracefulShutdown: the three signals, the two process error
\* events and the health check when memory is above 500 MB.
ShutdownTriggers ==
  {"SIGINT", "SIGTERM", "SIGQUIT", "uncaughtException", "unhandledRejection",
   "healthCheck"}

\* gracefulShutdown entered without looking at isShuttingDown.
EnterShutdownUnguarded(stopThrows) ==
  /\ shutdownRuns < MaxShutdownRuns
  /\ isShuttingDown' = TRUE
  /\ shutdownRuns' = shutdownRuns + 1
  /\ shutdownPc' = IF stopThrows THEN "exited" ELSE "closing"

\* gracefulShutdown up to its await: return when the flag is set; else set
\* it, stop the listener and call connection.close().  An exception before the
\* await goes through catch and finally: process.exit(0).
EnterShutdown(stopThrows) ==
  IF isShuttingDown
    THEN UNCHANGED <<isShuttingDown, shutdownRuns, shutdownPc>>
    ELSE /\ shutdownRuns < MaxShutdownRuns
         /\ isShuttingDown' = TRUE
         /\ shutdownRuns' = shutdownRuns + 1
         /\ shutdownPc' = IF stopThrows THEN "exited" ELSE "closing"

\* A trigger fires in the live process.  The health check returns at once
\* when the flag is set, as gracefulShutdown itself does.
Trigger(kind, stopThrows) ==
  /\ shutdownPc # "exited"
  /\ triggered' = triggered \cup {kind}
  /\ EnterShutdown(stopThrows)

\* connection.close() settles, resolved or rejected: finally, process.exit(0).
CloseSettles(ok) ==
  /\ shutdownPc = "closing"
  /\ shutdownPc' = "exited"
  /\ UNCHANGED <<isShuttingDown, shutdownRuns, triggered>>

InitShutdown ==
  /\ isShuttingDown = FALSE
  /\ shutdownPc = "running"
  /\ shutdownRuns = 0
  /\ triggered = {}

NextShutdown ==
  \/ \E kind \in ShutdownTriggers, stopThrows \in BOOLEAN :
       Trigger(kind, stopThrows) /\ ShutdownOnly
  \/ \E ok \in BOOLEAN : CloseSettles(ok) /\ ShutdownOnly

\* connection.close() settles.
ShutdownFairness == WF_vars(\E ok \in BOOLEAN : CloseSettles(ok) /\ ShutdownOnly)

(***************************************************************************)
(* Wallet connection and membership update requests:                       *)
(* controllers/walletController.js, routes/api.js lines 44-101 and         *)
(* controllers/membershipController.js lines 134-182.  Every await of a    *)
(* handler is a point where another request may run.  The User schema      *)
(* declares no index on walletAddress and the Membership schema a          *)
(* non-unique one, so a save never fails on a duplicate address.           *)
(***************************************************************************)
WalletUsers == 1..MaxWalletUsers
WalletAddrs == {"0xw1", "0xw2"}
\* Request bodies of a membership update: planId and transactionHash.
UpdateCalls == {[planId |-> 1, transactionHash |-> "0xa"],
                [planId |-> 2, transactionHash |-> "0xb"]}

WalletIdle ==
  [pc |-> "idle", addr |-> None, planId |-> 0, transactionHash |-> None,
   found |-> 0]

\* User.findOne({walletAddress, telegramId: {$ne: req.user.telegramId}})
ExistingUser(u, a) == \E v \in WalletUsers \ {u} : walletOf[v] = a

\* Membership.findOne({walletAddress}): index of the first match, 0 for null.
RECURSIVE FindMembershipFrom(_, _, _)
FindMembershipFrom(rows, k, a) ==
  IF k > Len(rows) THEN 0
  ELSE IF rows[k].walletAddress = a THEN k
  ELSE FindMembershipFrom(rows, k + 1, a)

\* The check shared by connectWallet and importWallet: 400 when another
\* user holds the address, else go on to req.user.save().
CheckThenConnect(u, a) ==
  /\ requests[u].pc = "idle"
  /\ IF ExistingUser(u, a)
       THEN /\ walletStatus' = 400
            /\ UNCHANGED <<walletOf, memberships, requests>>
       ELSE /\ requests' = [requests EXCEPT
                 ![u] = [WalletIdle EXCEPT !.pc = "connectSave", !.addr = a]]
            /\ UNCHANGED <<walletOf, memberships, walletStatus>>

ConnectWallet(u, a) == CheckThenConnect(u, a)

ImportWallet(u, a) == CheckThenConnect(u, a)

\* req.user.walletAddress = address; await req.user.save(); respond.
SaveWallet(u) ==
  /\ requests[u].pc = "connectSave"
  /\ walletOf' = [walletOf EXCEPT ![u] = requests[u].addr]
  /\ requests' = [requests EXCEPT ![u] = WalletIdle]
  /\ walletStatus' = 200
  /\ UNCHANGED memberships

\* req.user.walletAddress = undefined; await req.user.save().
DisconnectWallet(u) ==
  /\ requests[u].pc = "idle"
  /\ walletOf' = [walletOf EXCEPT ![u] = None]
  /\ walletStatus' = 200
  /\ UNCHANGED <<memberships, requests>>

\* POST /api/membership/update up to its user lookup: when no user holds the
\* address the requester is given it, else the handler goes on to the
\* membership lookup.
ApiUpdate(u, a, call) ==
  /\ requests[u].pc = "idle"
  /\ requests' = [requests EXCEPT ![u] =
       [pc |-> IF \E v \in WalletUsers : walletOf[v] = a
                 THEN "findMembership" ELSE "saveUser",
        addr |-> a, planId |-> call.planId,
        transactionHash |-> call.transactionHash, found |-> 0]]
  /\ UNCHANGED <<walletOf, memberships, walletStatus>>

\* user.walletAddress = address; await user.save()
ApiSaveUser(u) ==
  /\ requests[u].pc = "saveUser"
  /\ walletOf' = [walletOf EXCEPT ![u] = requests[u].addr]
  /\ requests' = [requests EXCEPT ![u].pc = "findMembership"]
  /\ UNCHANGED <<memberships, walletStatus>>

\* membershipController.updateMembership up to its membership lookup.
ControllerUpdate(u, a, call) ==
  /\ requests[u].pc = "idle"
  /\ requests' = [requests EXCEPT ![u] =
       [pc |-> "findMembership", addr |-> a, planId |-> call.planId,
        transactionHash |-> call.transactionHash, found |-> 0]]
  /\ UNCHANGED <<walletOf, memberships, walletStatus>>

\* let membership = await Membership.findOne({walletAddress})
FindMembership(u) ==
  /\ requests[u].pc = "findMembership"
  /\ requests' = [requests EXCEPT
       ![u].pc = "saveMembership",
       ![u].found = FindMembershipFrom(memberships, 1, requests[u].addr)]
  /\ UNCHANGED <<walletOf, memberships, walletStatus>>

\* The found document gets the new planId and transactionHash, or a new
\* document is built; await membership.save(); respond.
SaveMembership(u) ==
  LET r == requests[u] IN
  /\ r.pc = "saveMembership"
  /\ IF r.found > 0
       THEN memberships' = [memberships EXCEPT
              ![r.found].planId = r.planId,
              ![r.found].transactionHash = r.transactionHash]
       ELSE /\ Len(memberships) < MaxMemberships
            /\ memberships' = Append(memberships,
                 [walletAddress |-> r.addr, planId |-> r.planId,
                  transactionHash |-> r.transactionHash])
  /\ requests' = [requests EXCEPT ![u] = WalletIdle]
  /\ walletStatus' = 200
  /\ UNCHANGED walletOf

InitWallet ==
  /\ walletOf = [u \in WalletUsers |-> None]
  /\ memberships = <<>>
  /\ requests = [u \in WalletUsers |-> WalletIdle]
  /\ walletStatus = 0

NextWallet ==
  \/ \E u \in WalletUsers, a \in WalletAddrs : ConnectWallet(u, a) /\ WalletOnly
  \/ \E u \in WalletUsers, a \in WalletAddrs : ImportWallet(u, a) /\ WalletOnly
  \/ \E u \in WalletUsers : SaveWallet(u) /\ WalletOnly
  \/ \E u \in WalletUsers : DisconnectWallet(u) /\ WalletOnly
  \/ \E u \in WalletUsers, a \in WalletAddrs, call \in UpdateCalls :
       ApiUpdate(u, a, call) /\ WalletOnly
  \/ \E u \in WalletUsers : ApiSaveUser(u) /\ WalletOnly
  \/ \E u \in WalletUsers, a \in WalletAddrs, call \in UpdateCalls :
       ControllerUpdate(u, a, call) /\ WalletOnly
  \/ \E u \in WalletUsers : FindMembership(u) /\ WalletOnly
  \/ \E u \in WalletUsers : SaveMembership(u) /\ WalletOnly

(***************************************************************************)
(* TelegramService.withRateLimit: lines 970-986.                           *)
(***************************************************************************)
\* How one invocation of the operation ends: it resolves, it rejects with
\* error_code 429, or it rejects with any other error.
Outcomes == {"ok", "429", "error"}
\* The outcomes of the successive invocations; one more than the largest
\* `retries`, so that an invocation past the limit has an outcome too.
OutcomeSeqs == [1..(MaxRetries + 1) -> Outcomes]

NoError == "no error"
MaxRetriesExceeded == "Max retries exceeded"

\* The for loop from iteration i on.  The k-th invocation resolves to k.
RECURSIVE WithRateLimitFrom(_, _, _)
WithRateLimitFrom(outcomes, i, retries) ==
  IF ~(i < retries)
    THEN [returned |-> 0, threw |-> MaxRetriesExceeded, invocations |-> i]
    ELSE IF outcomes[i + 1] = "ok"
      THEN [returned |-> i + 1, threw |-> NoError, invocations |-> i + 1]
      ELSE IF outcomes[i + 1] = "429"
        THEN WithRateLimitFrom(outcomes, i + 1, retries)
        ELSE [returned |-> 0, threw |-> "error", invocations |-> i + 1]

\* withRateLimit making a single attempt whatever `retries` is.
WithRateLimitOnce(outcomes, retries) == WithRateLimitFrom(outcomes, 0, 1)

WithRateLimit(outcomes, retries) == WithRateLimitFrom(outcomes, 0, retries)

NotCalled == [retries |-> -1]

\* await this.withRateLimit(operation, retries)
CallWithRateLimit(outcomes, retries) ==
  rateLimitCall' = [retries |-> retries, outcomes |-> outcomes,
                    result |-> WithRateLimit(outcomes, retries)]

InitRateLimit == rateLimitCall = NotCalled

NextRateLimit ==
  \E outcomes \in OutcomeSeqs, retries \in 0..MaxRetries :
    CallWithRateLimit(outcomes, retries) /\ RateLimitOnly

InitAux == InitParse /\ InitDb /\ InitShutdown /\ InitWallet /\ InitRateLimit

NextParse ==
  \/ \E logs \in Receipts : NewReceipt(logs) /\ ParseOnly
  \/ \E eventName \in {None, "MemberRegistered", "ReferralPaid"}, lib \in EthersVersions :
       Parse(eventName, lib) /\ ParseOnly

Init ==
  /\ InitDelivery /\ InitUsers /\ InitLedger /\ InitMirror
  /\ InitEnvSet /\ InitWebhook /\ InitStartup /\ InitRace /\ InitEvents
  /\ InitAux

SpecDelivery ==
  Init /\ [][NextDelivery]_vars

SpecUsers ==
  Init /\ [][NextUsers]_vars

\* The state once every user has registered and nothing is recorded yet.
InitAllRegistered ==
  /\ InitDelivery /\ InitRegistered /\ InitLedger /\ InitMirror
  /\ InitEnvSet /\ InitWebhook /\ InitStartup /\ InitRace /\ InitEvents
  /\ InitAux

SpecLedger ==
  /\ InitAllRegistered
  /\ [][NextLedger]_vars

NextRate == \E d \in RateData : CreateReferral(d) /\ LedgerOnly

SpecRate ==
  /\ InitAllRegistered
  /\ [][NextRate]_vars

SpecMirror ==
  Init /\ [][NextMirror]_vars

\* gracefulShutdown of scripts/eventListener.js: stop(), the database
\* connection is closed and the process exits.  Callbacks not yet run,
\* reconnect timers, a running fetchMissedEvents loop and the POSTs awaiting
\* their response end with the process.
GracefulShutdown ==
  /\ (1..handlerSets) \ removed # {}
  /\ removed' = 1..handlerSets
  /\ due' = {}
  /\ timers' = 0
  /\ inflight' = [l \in Logs |-> 0]
  /\ run' = [r \in RunIds |-> [st |-> "done", todo |-> <<>>, cur |-> 0]]
  /\ UNCHANGED <<emitted, handlerSets, calls, posts, delivered, failed, dropped>>

\* The listener process from its start to its exit, without reconnects and
\* without fetchMissedEvents.
NextListener ==
  \/ \E name \in EventNames : Emit(name) /\ DeliveryOnly
  \/ \E l \in Logs, ok \in BOOLEAN : LiveCallback(1, l, ok) /\ DeliveryOnly
  \/ \E l \in Logs, ok \in BOOLEAN : Respond(l, ok) /\ DeliveryOnly
  \/ GracefulShutdown /\ DeliveryOnly

\* The event loop runs every callback that is due, and every POST is
\* answered or fails in the end.
ListenerFairness ==
  /\ \A l \in Logs : WF_vars(\E ok \in BOOLEAN : LiveCallback(1, l, ok) /\ DeliveryOnly)
  /\ \A l \in Logs : WF_vars(\E ok \in BOOLEAN : Respond(l, ok) /\ DeliveryOnly)

\* The web process started with any environment.
InitAnyEnv ==
  /\ InitDelivery /\ InitUsers /\ InitLedger /\ InitMirror
  /\ InitEnv /\ InitWebhook /\ InitStartup /\ InitRace /\ InitEvents
  /\ InitAux

SpecWebhook == InitAnyEnv /\ [][NextWebhook]_vars

\* The processes started in any environment.
InitAnyStartup ==
  /\ InitDelivery /\ InitUsers /\ InitLedger /\ InitMirror
  /\ InitEnvStartup /\ InitWebhook /\ InitStartup /\ InitRace /\ InitEvents
  /\ InitAux

SpecStartup == InitAnyStartup /\ [][NextStartup]_vars

\* The read endpoints of the controller: the answer's status is all they
\* leave behind.
QueryOps == {"getReferralStats", "getLeaderboard", "getAnalytics"}

Query(op, referrer) ==
  /\ lastError' = IF op = "getLeaderboard" /\ GetLeaderboard(referrer).status = "500"
                    THEN "500" ELSE None
  /\ UNCHANGED <<referrals, totalReferrals>>

\* The controller's request handlers: what a caller of the HTTP surface can
\* invoke.
NextSurface ==
  \/ \E a \in Users, b \in Users, amt \in AmountInputs, p \in PlanInputs,
        tx \in TxHashes \cup {None}, bound \in BOOLEAN :
          ProcessReferralCommission(a, b, amt, p, tx, bound) /\ LedgerOnly
  \/ \E n \in 1..MaxList : Len(referrals) + n <= MaxRows
        /\ \E list \in ImportLists(n), isAdmin \in BOOLEAN : BulkImport(list, isAdmin) /\ LedgerOnly
  \/ \E op \in QueryOps, u \in Users : Query(op, u) /\ LedgerOnly

SpecSurface == InitAllRegistered /\ [][NextSurface]_vars

SpecRace == InitAllRegistered /\ [][NextRace]_vars

SpecEvents == InitAllRegistered /\ [][NextEvents]_vars

\* The DatabaseService writers on a ledger that already holds rows.
NextSync ==
  \/ \E d \in ReferralData : CreateReferral(d) /\ LedgerOnly
  \/ \E n \in 1..MaxList : \E u \in Users, list \in SyncLists(n) :
        SyncUserReferrals(u, list) /\ LedgerOnly

SpecSync == InitAllRegistered /\ [][NextSync]_vars

\* Referral.deleteMany(filter): the collection without the rows numbered in
\* matched.
RECURSIVE DeleteMany(_, _, _)
DeleteMany(rows, k, matched) ==
  IF k > Len(rows) THEN <<>>
  ELSE (IF k \in matched THEN <<>> ELSE <<rows[k]>>) \o DeleteMany(rows, k + 1, matched)

\* cleanupFailedReferrals(daysOld): deleteMany({status: 'failed', createdAt:
\* {$lt: cutoff}}).  aged: the rows created before the cutoff.
CleanupFailedReferrals(aged) ==
  /\ referrals' = DeleteMany(referrals, 1,
                             {i \in aged : referrals[i].status = "failed"})
  /\ lastError' = None
  /\ UNCHANGED totalReferrals

\* The ledger under its writers and the maintenance job.
NextCleanup ==
  \/ \E d \in ReferralData : CreateReferral(d) /\ LedgerOnly
  \/ \E i \in 1..MaxRows : MarkAsFailed(i) /\ LedgerOnly
  \/ \E aged \in SUBSET (1..Len(referrals)) : CleanupFailedReferrals(aged) /\ LedgerOnly

SpecCleanup == InitAllRegistered /\ [][NextCleanup]_vars

SpecShutdown == Init /\ [][NextShutdown]_vars /\ ShutdownFairness

SpecWallet == Init /\ [][NextWallet]_vars

SpecRateLimit == Init /\ [][NextRateLimit]_vars

SpecDb == Init /\ [][NextDb]_vars

SpecParse == Init /\ [][NextParse]_vars

SpecListenerFair == Init /\ [][NextListener]_vars /\ ListenerFairness


(***************************************************************************)
(* Properties                                                              *)
(***************************************************************************)

\* C1: a chain log that was ingested twice (by a live handler and by
\* processEvent, or by the handlers of two contract instances) and whose
\* POSTs were all answered 2xx has exactly one delivered webhook call.
C1_IdempotentIngestion ==
  \A l \in Emitted :
    (calls[l] >= 2 /\ inflight[l] = 0 /\ failed[l] = 0) => delivered[l] = 1

\* C2: for every source transaction hash the ledger holds at most one
\* completed entry, however often a commission for it was processed.
C2_NoDoubleCredit ==
  \A t \in TxHashes :
    Cardinality({i \in 1..Len(referrals) :
                   referrals[i].sourceTx = t /\ referrals[i].status = "completed"}) <= 1

\* C3: every referee is associated with at most one referrer, counting the
\* referee's referredBy and the referrer of every ledger entry naming it.
C3_ReferralEdgeImmutable ==
  \A e \in Users :
    LET referrersOf ==
          ({referredBy[e]} \ {NoUser})
            \cup {referrals[i].referrer : i \in {j \in 1..Len(referrals) :
                                                   referrals[j].referee = e}}
    IN Cardinality(referrersOf) <= 1

\* C4: an entry saved without a rate stores 50 for plan levels 1..4, 55 for
\* 5..8 and 60 for 9..16; an entry saved with a rate stores that rate.
C4_CommissionRateTable ==
  \A i \in 1..Len(referrals) :
    LET r == referrals[i] IN
      IF r.givenRate = NoRate
        THEN r.commissionRate = (IF r.planLevel <= 4 THEN 50
                                 ELSE IF r.planLevel <= 8 THEN 55 ELSE 60)
        ELSE r.commissionRate = r.givenRate

\* C5: a delivery is recorded as failed only after the maximum number of
\* attempts (8) was made for it: a log all of whose calls ended as failed
\* has had 8 POSTs per call.
C5_RetryBound ==
  \A l \in Emitted :
    (failed[l] > 0 /\ failed[l] = calls[l] /\ inflight[l] = 0)
      => posts[l] = 8 * calls[l]

C7_OnChainWins ==
  [][(/\ response' # response
      /\ response'.op \in {"apiRefresh", "routeRefresh", "showDashboard",
                           "syncMembershipData"}
      /\ response'.read = "ok"
      /\ membership[response'.wallet].exists)
       => LET m == membership'[response'.wallet]
              c == chain[response'.wallet] IN
            /\ m.isActive = (c.balance # 0)
            /\ c.balance # 0 =>
                 /\ m.planId = c.planId
                 /\ m.cycleNumber = c.cycleNumber
                 /\ m.totalEarnings = Digits(c.totalEarnings)
                 /\ m.totalReferrals = c.totalReferrals]_vars

\* C8: the status of an entry that is completed or failed never changes.
C8_TerminalStatus ==
  [][\A i \in 1..Len(referrals) :
       referrals[i].status \in {"completed", "failed"}
         => referrals'[i].status = referrals[i].status]_vars

\* C9: every money aggregate of every referrer equals the sum and the count
\* over that referrer's completed entries.
C9_AggregatesCompletedOnly ==
  \A u \in Users :
    LET completed == [totalEarnings  |-> SumToDouble(referrals, CompletedRowsOf(u)),
                      totalReferrals |-> Cardinality(CompletedRowsOf(u))] IN
      /\ GetEarningsStats(u) = completed
      /\ GetTopReferrers(u) = completed
      /\ GetUserStats(u) = completed
      /\ GetLeaderboard(u).status = "200"
      /\ GetLeaderboard(u).totalEarnings = completed.totalEarnings
      /\ GetLeaderboard(u).totalReferrals = completed.totalReferrals
      /\ GetAnalytics(u) = completed

\* C10: at most one webhook POST is in flight for a log (and so for its
\* event key and endpoint) at any time.
C10_NoConcurrentDuplicate ==
  \A l \in Logs : inflight[l] <= 1

\* C11: every event the listener observed (a handler ran for it) is in the
\* end delivered or recorded as failed.
C11_NoTaskLost ==
  \A l \in Logs :
    (calls[l] > 0 \/ dropped[l] > 0) ~> (delivered[l] > 0 \/ failed[l] > 0)

\* C12: every handler run for a log ends in a POST that is still awaited, an
\* acknowledged delivery or a recorded failure; none ends without a record.
C12_EveryOutcomeRecorded ==
  \A l \in Logs :
    calls[l] + dropped[l] = inflight[l] + delivered[l] + failed[l]

\* C17: while a POST for a log is awaited, handing the same log to the
\* delivery path again issues no further POST.
C17_EnqueueDedup ==
  [][\A l \in Logs : inflight[l] > 0 => posts'[l] = posts[l]]_vars

\* C13: for every source transaction with a completed entry of amount
\* 5000000 at plan level 5 there is exactly one such entry, and the
\* commission credited for it is 2750000 minor units (55%).
C13_CommissionAt55 ==
  \A t \in TxHashes :
    LET rows == {i \in 1..Len(referrals) :
                   /\ referrals[i].sourceTx = t
                   /\ referrals[i].status = "completed"
                   /\ referrals[i].planLevel = 5
                   /\ ToDouble(referrals[i].amount) = 5000000} IN
      rows # {} =>
        /\ Cardinality(rows) = 1
        /\ \A i \in rows :
             LET c == CommissionEarned(referrals[i]) IN
               c.whole * 1000000 + ParseDigits(c.fraction) * 10000 = 2750000

\* C14: the receiver sends no notification for a request whose Authorization
\* header is not exactly 'Bearer <shared secret>'.
C14_WebhookAuthentication ==
  [][notified' # notified => webhookAnswer'.header = Bearer(WebhookSecret)]_vars

\* C15: a missing webhook secret aborts the start even when the database and
\* the chain settings are usable: the listener never runs with the built-in
\* default secret.
C15_FailFastOnConfiguration ==
  (/\ listenerProc.state = "running"
   /\ env.MONGODB_URI = Valid
   /\ env.RPC_URL = Valid
   /\ env.CONTRACT_ADDRESS = Valid)
    => (env.WEBHOOK_SECRET # None /\ listenerProc.secret # DefaultSecret)

\* C16: no request handled by the controller's HTTP surface creates, changes
\* or deletes a commission entry: the ledger rows are the same after every
\* such call.
C16_NoExternalMutation == [][referrals' = referrals]_vars

\* C18: when two requests for the same commission event (the same
\* transaction hash) have both finished, exactly one ledger entry exists for
\* that event.
C18_RacingWorkersConverge ==
  \A v \in Workers, w \in Workers :
    (/\ v # w
     /\ workers[v].pc \in {"done", "rejected"}
     /\ workers[w].pc \in {"done", "rejected"}
     /\ workers[v].kind = workers[w].kind
     /\ workers[v].tx = workers[w].tx)
      => Cardinality({i \in 1..Len(referrals) : referrals[i].sourceTx = workers[v].tx}) = 1

\* C19: events are told apart by (transaction hash, log index): the ledger
\* holds one entry for every distinct pair handed to it, so two events of one
\* transaction with different log indexes leave two entries, and a replay of
\* a pair leaves no further one.
C19_EventKeyIncludesLogIndex ==
  \A t \in TxHashes :
    Cardinality({i \in 1..Len(referrals) : referrals[i].transactionHash = t})
      = Cardinality({ev \in ingested : ev.transactionHash = t})

\* C20: a failure on one commission entry does not keep the unrelated ones
\* from being processed: after syncUserReferrals(userId, list) has run, every
\* transaction of the list has a ledger entry, the ones after a rejected
\* element included.
C20_FailureIsolation ==
  [][\A u \in Users, list \in SyncLists(MaxList) :
       SyncUserReferrals(u, list) =>
         \A k \in 1..Len(list) :
           \E i \in 1..Len(referrals') :
             referrals'[i].transactionHash = list[k].transactionHash]_vars

\* C21: a transient error is retried: once a POST for a log has failed or its
\* members() read has thrown, the log is delivered, or a further attempt for
\* it is in flight or still to run.
C21_TransientErrorsRetried ==
  \A l \in Logs :
    (failed[l] + dropped[l] > 0) =>
      \/ delivered[l] > 0
      \/ inflight[l] > 0
      \/ \E i \in HandlerIds : <<i, l>> \in due
      \/ \E r \in RunIds :
           run[r].cur = l \/ \E k \in 1..Len(run[r].todo) : run[r].todo[k] = l

\* C22: a log of another address, with an unknown topic or with data that
\* does not decode is skipped; every decodable log that passes the name
\* filter yields exactly one event, in the order of the logs.
C22_UnknownLogsDropped ==
  parsed.done =>
    LET wanted == {k \in 1..Len(receipt) :
                     /\ receipt[k] \in {"MemberRegistered", "ReferralPaid"}
                     /\ (parsed.filter = None \/ receipt[k] = parsed.filter)}
        ev == parsed.events IN
      /\ Len(ev) = Cardinality(wanted)
      /\ \A i \in 1..Len(ev) : ev[i].logIndex \in wanted /\ ev[i].name = receipt[ev[i].logIndex]
      /\ \A i \in 1..Len(ev), j \in 1..Len(ev) : i < j => ev[i].logIndex < ev[j].logIndex

\* A batch with an undecodable log before a decodable one has been parsed.
C22_Witness ==
  /\ parsed.done
  /\ parsed.filter = None
  /\ \E i \in 1..Len(receipt), j \in 1..Len(receipt) :
       /\ i < j
       /\ receipt[i] \in {"unknownTopic", "badData", "otherAddress", "noAddress"}
       /\ receipt[j] \in {"MemberRegistered", "ReferralPaid"}
  /\ Len(parsed.events) > 0

\* C23: POST /api/membership/update, updateMembership and the exit endpoint
\* leave planId, cycleNumber, totalEarnings, totalReferrals and isActive of a
\* stored membership record unchanged.
C23_MirrorWriteOwnership ==
  [][(/\ response' # response
      /\ response'.op \in {"apiMembershipUpdate", "updateMembership", "exit"}
      /\ membership[response'.wallet].exists)
       => LET old == membership[response'.wallet]
              new == membership'[response'.wallet] IN
            /\ new.planId = old.planId
            /\ new.cycleNumber = old.cycleNumber
            /\ new.totalEarnings = old.totalEarnings
            /\ new.totalReferrals = old.totalReferrals
            /\ new.isActive = old.isActive]_vars

\* C24: no operation removes entries whose status is pending or failed: no
\* step leaves the ledger as it was with some pending or failed rows taken
\* out.
C24_FailedEntriesRetained ==
  [][\A gone \in SUBSET (1..Len(referrals)) \ {{}} :
       (\A i \in gone : referrals[i].status \in {"pending", "failed"})
         => referrals' # DeleteMany(referrals, 1, gone)]_vars

\* C25: the attempt counter never exceeds MAX_RETRY_ATTEMPTS and at most one
\* connection attempt is in flight at a time.
C25_BoundedReconnection ==
  /\ connectionAttempts <= MAX_RETRY_ATTEMPTS
  /\ connecting <= 1

\* C26: after any sequence of provider errors, timers and reconnects at most
\* one set of handlers is registered, so an emitted log is due to at most one
\* handler run.
C26_OneListenerAfterReconnect ==
  Cardinality((1..handlerSets) \ removed) <= 1

\* C27: the body of gracefulShutdown is entered at most once, isShuttingDown
\* stays set once it is set, and a shutdown that has begun ends with the
\* process exiting, whichever triggers fire and whether or not stopping the
\* listener or closing the connection throws.
C27_ShutdownRunsOnce ==
  /\ [](shutdownRuns <= 1)
  /\ [][isShuttingDown => isShuttingDown']_vars
  /\ (isShuttingDown ~> shutdownPc = "exited")

\* Several triggers fired, among them one while the connection was closing,
\* and the process has exited.
C27_Witness ==
  /\ Cardinality(triggered) >= 3
  /\ shutdownRuns = 1
  /\ shutdownPc = "exited"

\* C28: no two users hold the same wallet address, whatever the interleaving
\* of connectWallet, importWallet, disconnectWallet and membership updates.
C28_WalletBelongsToOneUser ==
  \A u, v \in WalletUsers :
    (u # v /\ walletOf[u] # None) => walletOf[u] # walletOf[v]

\* C29: at most one membership record exists for a wallet address, whatever
\* the interleaving of the two membership update handlers.
C29_OneMembershipPerWallet ==
  \A i, j \in 1..Len(memberships) :
    memberships[i].walletAddress = memberships[j].walletAddress => i = j

\* C30: withRateLimit invokes the operation at most `retries` times; it
\* stops at the first invocation that does not end in a 429, returning its
\* result when it resolved and throwing its error when it rejected, and it
\* throws 'Max retries exceeded' after `retries` invocations that all ended
\* in a 429.
C30_BoundedRateLimitRetry ==
  rateLimitCall # NotCalled =>
    LET c == rateLimitCall
        settled == {k \in 1..c.retries : c.outcomes[k] # "429"}
    IN /\ c.result.invocations <= c.retries
       /\ settled = {} =>
            /\ c.result.threw = MaxRetriesExceeded
            /\ c.result.invocations = c.retries
       /\ settled # {} =>
            LET first == CHOOSE k \in settled : \A j \in settled : k <= j
            IN /\ c.result.invocations = first
               /\ c.outcomes[first] = "ok" =>
                    c.result.returned = first /\ c.result.threw = NoError
               /\ c.outcomes[first] = "error" =>
                    c.result.returned = 0 /\ c.result.threw = "error"

\* Two rate-limited invocations, then the third and last allowed one resolves.
C30_Witness ==
  /\ rateLimitCall # NotCalled
  /\ rateLimitCall.retries = 3
  /\ rateLimitCall.outcomes[1] = "429"
  /\ rateLimitCall.outcomes[2] = "429"
  /\ rateLimitCall.outcomes[3] = "ok"
  /\ rateLimitCall.result.returned = 3

====
